---- MODULE Spec2Model ----
(***************************************************************************)
(* CacheService (lib/cache.js): an in-memory key/value store with per-key  *)
(* expiry timers, a periodic sweep, a probabilistic sweep inside set, and  *)
(* oldest-first eviction under a size cap.                                 *)
(*                                                                         *)
(* The store is the JavaScript Map `cache` (a sequence of entries in Map   *)
(* insertion order), the Map `timers` (key -> timer handle) and the set of *)
(* timeouts pending in the Node.js timer facility.  Time is Date.now()     *)
(* counted in ticks of TickMs milliseconds, so that a delay beyond the     *)
(* timer facility's 2^31-1 ms stays a number the checker can hold.         *)
(* JavaScript null is the string "null"; an entry without expiry has       *)
(* expires = NoExpiry.                                                     *)
(***************************************************************************)
EXTENDS Integers, Sequences, FiniteSets, TLC

VARIABLES
    now,           \* Date.now(), in ticks
    cache,         \* this.cache: the entries in Map iteration order
    timers,        \* this.timers: key -> handle (NoTimer: no mapping)
    pending,       \* the timeouts the timer facility holds: [id, key, due]
    maxSize,       \* this._config.maxSize
    defaultTTL,    \* this._config.defaultTTL
    cleanupTimer,  \* this._cleanupTimer is set (the periodic sweep is running)
    calls,         \* the has and getOrSet calls in flight, each at one of its awaits
    observe,       \* history: which observations this specification records
    destroyed,     \* history: destroy() has been called
    written,       \* history: per key, the last set with a ttl and what became of it
    last,          \* history: the last operation, its result, what its sweep did
    logger,        \* the Logger: its _config and whether _fs is loaded
    protection,    \* the CloudflareProtection: its config
    logging,       \* the cache's enableLogging and the kind of its logger
    limiter        \* the rate-limit middleware: its config, its requests in flight

vars == <<now, cache, timers, pending, maxSize, defaultTTL, cleanupTimer,
          calls, observe, destroyed, written, last, logger, protection, logging, limiter>>

-----------------------------------------------------------------------------
(* Bounds of the model *)

\* Date.now() advances at most this many times
MaxTicks == 2

(* Program constants *)

\* `ttl * 1000`: seconds to milliseconds
MsPerSec == 1000
\* `expires = ttl > 0 ? ... : null`
NoExpiry == 0
\* constructor default `defaultTTL: 300`
DefaultTTLSeconds == 300
\* constructor default `maxSize: 1000`
DefaultMaxSize == 1000
\* setTimeout: a delay above 2^31-1 ms (or below 1) is replaced by 1 ms
TimeoutMax == 2147483647

\* the timer facility's clock against Date.now(): a callback can run this many
\* milliseconds before Date.now() reaches the due time
TimerEarlyMs == 1
\* a ttl (seconds) whose delay in ms exceeds TimeoutMax
BigTTL == 2147484

NULL == "null"
UNDEFINED == "undefined"
NoKey == "-"
NoTimer == 0

Keys == {"k1", "k2", "k3"}
\* the keys the operations are called with where two keys show every case
TwoKeys == {"k1", "k2"}
\* the values stored where the value does not matter
Storable == {"a"}
\* what a producer may return: JavaScript null is a value like any other
Produced == {"a", "b", NULL}
\* ttl arguments (seconds): no expiry, and one second
TTLs == {0, 1}
\* maxSize values the setters are called with (they validate nothing)
Sizes == {-1, 1}
\* cleanupInterval values setConfig is called with (ms)
Intervals == {0, 60000}
Procs == {"p1", "p2"}

\* the clock's resolution: one tick is a second
TickMs == MsPerSec
TicksPerSec == MsPerSec \div TickMs
\* Date.now() at construction (in ticks), and the last instant explored
StartTime == TicksPerSec
EndTime == StartTime + MaxTicks

-----------------------------------------------------------------------------
(* Map helpers *)

Has(c, k) == \E i \in DOMAIN c : c[i].key = k

Entry(c, k) == c[CHOOSE i \in DOMAIN c : c[i].key = k]

MapDelete(c, k) == SelectSeq(c, LAMBDA e : e.key # k)

\* mutant: an existing key keeps its entry
MapSetIfAbsent(c, e) == IF Has(c, e.key) THEN c ELSE Append(c, e)

\* Map.prototype.set: an existing key keeps its place in the iteration order
MapSet(c, e) ==
    IF Has(c, e.key)
    THEN [i \in DOMAIN c |-> IF c[i].key = e.key THEN e ELSE c[i]]
    ELSE Append(c, e)

MapKeys(c) == {c[i].key : i \in DOMAIN c}

\* clearTimeout(handle)
ClearTimeout(p, id) == {h \in p : h.id # id}

\* the timer facility's delay (in ticks): a delay above TimeoutMax ms or below
\* 1 ms becomes 1 ms, which is less than a tick
TimerDelay(d) == IF d > TimeoutMax \div TickMs \/ d < 1 THEN 1 \div TickMs ELSE d

\* setTimeout returns a handle the facility does not hold yet (the least free one)
FreshHandle(p) ==
    CHOOSE id \in 1..(Cardinality(p) + 1) :
        /\ \A h \in p : h.id # id
        /\ \A j \in 1..(id - 1) : \E h \in p : h.id = j

\* mutant: the timer of k is left pending
KeepTimer(st, k) == st

\* `this.timers.has(key)` then clearTimeout and delete
DropTimer(st, k) ==
    IF st.timers[k] # NoTimer
    THEN [st EXCEPT !.pending = ClearTimeout(st.pending, st.timers[k]),
                    !.timers = [st.timers EXCEPT ![k] = NoTimer]]
    ELSE st

\* mutant: the entry of k is deleted and its timer handle is kept
RemoveKeepingTimer(st, k) == [st EXCEPT !.cache = MapDelete(st.cache, k)]

\* delete the entry of k and its timer
Remove(st, k) == DropTimer([st EXCEPT !.cache = MapDelete(st.cache, k)], k)

RECURSIVE RemoveAll(_, _)
RemoveAll(st, ks) ==
    IF ks = <<>> THEN st ELSE RemoveAll(Remove(st, Head(ks)), Tail(ks))

-----------------------------------------------------------------------------
(* _cleanup *)

Expired(e, t) == e.expires # NoExpiry /\ t > e.expires

\* keys of the entries the time-based pass removes, in iteration order
ExpiredKeys(c, t) ==
    LET dead == SelectSeq(c, LAMBDA e : Expired(e, t))
    IN  [i \in DOMAIN dead |-> dead[i].key]

\* mutant: an unstable sort, which puts an entry before its equals
RECURSIVE InsertSortedUnstable(_, _)
InsertSortedUnstable(s, e) ==
    IF s = <<>> THEN <<e>>
    ELSE IF e.created - s[Len(s)].created <= 0
         THEN Append(InsertSortedUnstable(SubSeq(s, 1, Len(s) - 1), e), s[Len(s)])
         ELSE Append(s, e)

\* Array.prototype.sort((a, b) => a.created - b.created): stable
RECURSIVE InsertSorted(_, _)
InsertSorted(s, e) ==
    IF s = <<>> THEN <<e>>
    ELSE IF e.created - s[Len(s)].created < 0
         THEN Append(InsertSorted(SubSeq(s, 1, Len(s) - 1), e), s[Len(s)])
         ELSE Append(s, e)

RECURSIVE SortByCreated(_)
SortByCreated(c) ==
    IF c = <<>> THEN <<>>
    ELSE InsertSorted(SortByCreated(SubSeq(c, 1, Len(c) - 1)), c[Len(c)])

\* Array.prototype.slice(0, n)
SliceTo(s, n) ==
    IF n <= 0 THEN <<>> ELSE IF n >= Len(s) THEN s ELSE SubSeq(s, 1, n)

\* keys the size pass removes
SizeVictims(c, m) ==
    IF Len(c) > m
    THEN LET toRemove == SliceTo(SortByCreated(c), Len(c) - m)
         IN  [i \in DOMAIN toRemove |-> toRemove[i].key]
    ELSE <<>>

\* mutant: the sweep has no time-based pass
CleanupSizeOnly(st, t, m) == RemoveAll(st, SizeVictims(st.cache, m))

\* _cleanup at time t with maxSize m
Cleanup(st, t, m) ==
    LET swept == RemoveAll(st, ExpiredKeys(st.cache, t))
    IN  RemoveAll(swept, SizeVictims(swept.cache, m))

\* the keys the size pass of Cleanup(st, t, m) removes
Evicted(st, t, m) == SizeVictims(RemoveAll(st, ExpiredKeys(st.cache, t)).cache, m)

Range(s) == {s[i] : i \in DOMAIN s}

-----------------------------------------------------------------------------
(* get, set, del *)

\* the value get(k) returns at time t
GetValue(c, k, t) ==
    IF ~Has(c, k) THEN NULL
    ELSE IF Expired(Entry(c, k), t) THEN NULL
    ELSE Entry(c, k).data

\* mutant: get leaves an expired entry where it is
GetStoreLeavingExpired(st, k, t) ==
    IF ~Has(st.cache, k) THEN st
    ELSE IF Expired(Entry(st.cache, k), t) THEN st
    ELSE [st EXCEPT !.cache = MapSet(st.cache, [Entry(st.cache, k) EXCEPT !.lastAccessed = t])]

\* mutant: get refreshes the age of the entry
GetStoreRefreshing(st, k, t) ==
    IF ~Has(st.cache, k) THEN st
    ELSE IF Expired(Entry(st.cache, k), t) THEN Remove(st, k)
    ELSE [st EXCEPT !.cache = MapSet(st.cache, [Entry(st.cache, k) EXCEPT
                                                   !.lastAccessed = t, !.created = t])]

\* the store after get(k) at time t
GetStore(st, k, t) ==
    IF ~Has(st.cache, k) THEN st
    ELSE IF Expired(Entry(st.cache, k), t) THEN Remove(st, k)
    ELSE [st EXCEPT !.cache = MapSet(st.cache, [Entry(st.cache, k) EXCEPT !.lastAccessed = t])]

\* `ttl * 1000`, in ticks
TtlDelay(ttl) == ttl * TicksPerSec

\* mutant: a negative ttl gives an expiry (in the past)
ExpiresAtNonZero(ttl, t) == IF ttl # 0 THEN t + TtlDelay(ttl) ELSE NoExpiry

\* `expires = ttl > 0 ? now + ttl * 1000 : null`
ExpiresAt(ttl, t) == IF ttl > 0 THEN t + TtlDelay(ttl) ELSE NoExpiry

\* the setTimeout of set
Schedule(st, k, ttl, t) ==
    IF ExpiresAt(ttl, t) # NoExpiry
    THEN LET id == FreshHandle(st.pending)
         IN  [st EXCEPT !.pending = @ \cup {[id |-> id, key |-> k,
                                            due |-> t + TimerDelay(TtlDelay(ttl))]},
                        !.timers = [@ EXCEPT ![k] = id]]
    ELSE st

\* mutant: set does not cancel the timer pending for k
SetStoreKeepingTimer(st, k, d, ttl, t) ==
    Schedule([st EXCEPT !.cache =
                 MapSet(@, [key |-> k, data |-> d, created |-> t,
                            lastAccessed |-> t, expires |-> ExpiresAt(ttl, t)])],
             k, ttl, t)

\* mutant: an overwritten entry keeps the created of the entry it replaces
SetStoreKeepingAge(st, k, d, ttl, t) ==
    LET cleared == DropTimer(st, k)
        born == IF Has(st.cache, k) THEN Entry(st.cache, k).created ELSE t
        stored == [cleared EXCEPT !.cache =
                      MapSet(@, [key |-> k, data |-> d, created |-> born,
                                 lastAccessed |-> t, expires |-> ExpiresAt(ttl, t)])]
    IN  Schedule(stored, k, ttl, t)

\* set(k, d, ttl) at time t up to the probabilistic sweep
SetStore(st, k, d, ttl, t) ==
    LET cleared == DropTimer(st, k)
        stored == [cleared EXCEPT !.cache =
                      MapSet(@, [key |-> k, data |-> d, created |-> t,
                                 lastAccessed |-> t, expires |-> ExpiresAt(ttl, t)])]
    IN  Schedule(stored, k, ttl, t)

\* set(k, d, ttl) at time t; sweep tells whether Math.random() < 0.1
SetSweep(st, k, d, ttl, t, m, sweep) ==
    IF sweep THEN Cleanup(SetStore(st, k, d, ttl, t), t, m) ELSE SetStore(st, k, d, ttl, t)

\* mutant: the timer callback removes nothing
TimerCallbackIdle(st, h) == [st EXCEPT !.pending = @ \ {h}]

\* the store after the timer callback of handle h ran
TimerCallback(st, h) ==
    [cache |-> MapDelete(st.cache, h.key),
     timers |-> [st.timers EXCEPT ![h.key] = NoTimer],
     pending |-> st.pending \ {h}]

\* mutant: the entries are removed, the timers stay
ClearStoreOnlyEntries(st) == [st EXCEPT !.cache = <<>>]

\* clear() and the body of destroy()
ClearStore(st) ==
    [cache |-> <<>>, timers |-> [k \in Keys |-> NoTimer],
     pending |-> {h \in st.pending : \A k \in Keys : st.timers[k] # h.id}]

-----------------------------------------------------------------------------
(* State *)

Store == [cache |-> cache, timers |-> timers, pending |-> pending]

\* a call not in flight.  pc: the await the call is at; cached: what its
\* `await this.get(key)` read, and from the producer's resolution on the
\* data it returns; by: history, who set the key while the call awaited its
\* producer or its own set
Idle == [pc |-> "idle", key |-> NoKey, ttl |-> 0, by |-> "-", cached |-> UNDEFINED,
         failed |-> UNDEFINED]

NotWritten == [val |-> NULL, exp |-> NoExpiry, st |-> "none"]

\* what the middleware did with a request: next() called, the status of the
\* response sent (0: none), what it threw, req.realClientIP
NoResponse == [next |-> FALSE, status |-> 0, threw |-> UNDEFINED, realClientIP |-> UNDEFINED]

\* a request no operation has handled
NoRequest == [host |-> <<>>, cfRay |-> UNDEFINED, cfConnectingIP |-> UNDEFINED, ip |-> "-"]

\* the statistics of an operation that returns none
NoStats == [size |-> 0, maxSize |-> 0, timers |-> 0, expired |-> 0, hitRatio |-> 0]

Quiet ==
    [op |-> "-", key |-> NoKey, val |-> UNDEFINED, proc |-> "-", swept |-> FALSE,
     evicted |-> {}, live |-> FALSE, raced |-> "-", prev |-> 0, cause |-> UNDEFINED,
     list |-> <<>>, req |-> NoRequest, res |-> NoResponse, stale |-> FALSE,
     stats |-> NoStats, threw |-> UNDEFINED]

\* the record of an operation: op(key) returned val.  swept: a _cleanup ran in
\* it; evicted: the entries its size pass removed; live: key had an unexpired
\* entry when it began; proc: the getOrSet call it belongs to; raced: who set
\* key last while that call awaited its producer ("set": a plain set, or the
\* other call; "-": nobody); prev: the timer handle of key
\* (set) or the maxSize (setMaxSize, setConfig) before the operation, or
\* (destroy) 1 when destroy() had been called before; cause:
\* what the producer of a rejected getOrSet failed with; list: the array keys()
\* returned, or (setConfig) the cleanupInterval given, if one was
Last(op, k, v) ==
    IF op \in observe THEN [Quiet EXCEPT !.op = op, !.key = k, !.val = v] ELSE Quiet

\* the record of an operation that ran _cleanup on the store st
Swept(rec, st, m) ==
    IF rec.op = "-" THEN rec
    ELSE LET c == RemoveAll(st, ExpiredKeys(st.cache, now)).cache
             ks == Range(SizeVictims(c, m))
         IN  [rec EXCEPT !.swept = TRUE,
                         !.evicted = {[key |-> c[i].key, created |-> c[i].created] :
                                        i \in {j \in DOMAIN c : c[j].key \in ks}}]

-----------------------------------------------------------------------------
(* Logger *)

\* this.levels
Levels == {"debug", "info", "warn", "error"}

Priority(level) ==
    CASE level = "debug" -> 0
      [] level = "info" -> 1
      [] level = "warn" -> 2
      [] level = "error" -> 3

\* a level name that this.levels does not hold
NoLevel == "verbose"

LevelNames == Levels \cup {NoLevel}

LogFile == "app.log"

FilePaths == {NULL, LogFile}

\* customHandler values: no handler, a function that returns, a function
\* that throws an Error, a function that throws null, a value that is not a
\* function
HandlerFunctions == {"returns", "throwsError", "throwsNull"}

Handlers == {NULL, "notAFunction"} \cup HandlerFunctions

DefaultLoggerConfig ==
    [level |-> "info", enableConsole |-> TRUE, enableFile |-> FALSE,
     filePath |-> NULL, customHandler |-> NULL]

\* an options object: the properties in `given` are present
NoOptions ==
    [given |-> {}, level |-> "info", enableConsole |-> TRUE, enableFile |-> FALSE,
     filePath |-> NULL, customHandler |-> NULL]

\* { ...config, ...options }
Spread(config, options) ==
    [f \in DOMAIN config |-> IF f \in options.given THEN options[f] ELSE config[f]]

\* dirOk: existsSync/mkdirSync of the file's directory did not throw
InitializeFileLogging(lg, dirOk) ==
    LET loaded == [lg EXCEPT !.fs = TRUE]
    IN  IF lg.config.filePath # NULL /\ ~dirOk
        THEN [loaded EXCEPT !.config.enableFile = FALSE]
        ELSE loaded

\* new Logger(options)
NewLogger(options, dirOk) ==
    LET lg == [config |-> Spread(DefaultLoggerConfig, options), fs |-> FALSE]
    IN  IF lg.config.enableFile THEN InitializeFileLogging(lg, dirOk) ELSE lg

LoggerSetConfig(lg, options, dirOk) ==
    LET oldFileConfig == lg.config.enableFile
        merged == [lg EXCEPT !.config = Spread(lg.config, options)]
    IN  IF merged.config.enableFile /\ ~oldFileConfig
        THEN InitializeFileLogging(merged, dirOk)
        ELSE merged

\* setLevel(level) throws for a level this.levels does not hold
SetLevelThrows(level) == level \notin Levels

LoggerSetLevel(lg, level) ==
    IF level \in Levels THEN [lg EXCEPT !.config.level = level] ELSE lg

LoggerSetConsoleEnabled(lg, enabled) == [lg EXCEPT !.config.enableConsole = enabled]

LoggerSetFileEnabled(lg, enabled, filePath, dirOk) ==
    LET flagged == [lg EXCEPT !.config.enableFile = enabled]
        pathed == IF filePath # NULL
                  THEN [flagged EXCEPT !.config.filePath = filePath]
                  ELSE flagged
    IN  IF enabled THEN InitializeFileLogging(pathed, dirOk) ELSE pathed

LoggerSetCustomHandler(lg, handler) ==
    [lg EXCEPT !.config.customHandler =
                   IF handler \in HandlerFunctions THEN handler ELSE NULL]

\* _shouldLog reads .priority of this.levels[this._config.level]: a TypeError
\* when the level logged exists and the configured level does not
ShouldLogThrows(lg, level) == level \in Levels /\ lg.config.level \notin Levels

ShouldLog(lg, level) ==
    /\ level \in Levels
    /\ Priority(level) >= Priority(lg.config.level)

ConsoleMethod(level) ==
    CASE level = "error" -> "console.error"
      [] level = "warn" -> "console.warn"
      [] OTHER -> "console.log"

\* what _writeToFile emits; writeOk: appendFileSync did not throw
WriteToFile(lg, writeOk) ==
    IF lg.config.enableFile /\ lg.config.filePath # NULL /\ lg.fs
    THEN IF writeOk THEN <<"file">> ELSE <<"console.warn">>
    ELSE <<>>

\* log(level, message, metadata): what it throws (UNDEFINED: it returns) and
\* what it emits, in order
Log(lg, level, writeOk) ==
    IF ShouldLogThrows(lg, level) THEN [threw |-> "TypeError", out |-> <<>>]
    ELSE IF ~ShouldLog(lg, level) THEN [threw |-> UNDEFINED, out |-> <<>>]
    ELSE LET console == IF lg.config.enableConsole
                        THEN <<ConsoleMethod(level)>>
                        ELSE <<>>
             emitted == console \o WriteToFile(lg, writeOk)
             handler == lg.config.customHandler
         IN  CASE handler = NULL -> [threw |-> UNDEFINED, out |-> emitted]
               [] handler = "returns" ->
                      [threw |-> UNDEFINED, out |-> emitted \o <<"handler">>]
               [] handler = "throwsError" ->
                      [threw |-> UNDEFINED,
                       out |-> emitted \o <<"handler", "console.warn">>]
               [] handler = "notAFunction" ->
                      [threw |-> UNDEFINED, out |-> emitted \o <<"console.warn">>]
               [] handler = "throwsNull" ->
                      [threw |-> "TypeError", out |-> emitted \o <<"handler">>]

-----------------------------------------------------------------------------
(* CloudflareProtection *)

\* a Host header is its ':'-separated parts (host.split(':')); <<>>: the
\* request has no Host header; <<"">>: the header is the empty string
Hosts ==
    {<<>>, <<"">>, <<"pricedb.io">>, <<"pricedb.io", "443">>, <<"evil.com">>,
     <<"1.2.3.4">>, <<"localhost", "3000">>}

\* the values of a cf-ray or cf-connecting-ip header (UNDEFINED: not sent)
HeaderValues == {UNDEFINED, "cf"}

RemoteAddresses == {"127.0.0.1", "203.0.113.9"}

Requests ==
    [host : Hosts, cfRay : HeaderValues, cfConnectingIP : HeaderValues,
     ip : RemoteAddresses]

DefaultDomains == {"pricedb.io", "ws.pricedb.io"}

DefaultProtectionConfig ==
    [allowedDomains |-> DefaultDomains, blockDirectIP |-> TRUE,
     requireCloudflare |-> TRUE, developmentMode |-> FALSE, logBlocked |-> TRUE,
     allowLocalhost |-> FALSE, enableLogging |-> FALSE, logger |-> NULL]

\* an options object of CloudflareProtection: the properties in `given` are present
NoProtectionOptions ==
    [given |-> {}, allowedDomains |-> DefaultDomains, blockDirectIP |-> TRUE,
     requireCloudflare |-> TRUE, developmentMode |-> FALSE, logBlocked |-> TRUE,
     allowLocalhost |-> FALSE, enableLogging |-> FALSE, logger |-> NULL]

\* validateConfig throws for an empty allowedDomains
ValidateConfigThrows(config) == config.allowedDomains = {}

\* the truthiness of a string or of undefined
Truthy(str) == str # UNDEFINED /\ str # ""

\* the Host header is a non-empty string
HostGiven(host) == host # <<>> /\ host # <<"">>

\* host?.split(':')[0]
Hostname(host) == IF host = <<>> THEN UNDEFINED ELSE host[1]

\* isIPv4(hostname) or four dot-separated runs of digits
IsDirectIPAccess(hostname) == hostname \in {"1.2.3.4", "127.0.0.1"}

IsDomainAllowed(config, domain) == domain \in config.allowedDomains

HasCloudflareHeaders(cfRay, cfConnectingIP) == Truthy(cfRay) /\ Truthy(cfConnectingIP)

IsLocalhostRequest(req) ==
    \/ Hostname(req.host) \in {"localhost", "127.0.0.1", "::1"}
    \/ req.ip \in {"127.0.0.1", "::1", "::ffff:127.0.0.1"}

\* _log(level, ...): what it throws (UNDEFINED: it returns); lg is the Logger
\* that config.logger refers to
ProtectionLog(config, lg, level, writeOk) ==
    IF config.enableLogging /\ config.logger # NULL
    THEN Log(lg, level, writeOk).threw
    ELSE UNDEFINED

LogBlockedRequest(config, lg, writeOk) ==
    IF config.logBlocked THEN ProtectionLog(config, lg, "warn", writeOk) ELSE UNDEFINED

\* the check that blocks the request ("-": none does)
BlockedBy(config, req) ==
    LET domain == Hostname(req.host)
    IN  IF /\ config.blockDirectIP
           /\ HostGiven(req.host)
           /\ IsDirectIPAccess(Hostname(req.host))
        THEN "Direct IP access"
        ELSE IF Truthy(domain) /\ ~IsDomainAllowed(config, domain)
        THEN "Invalid domain"
        ELSE IF /\ config.requireCloudflare
                /\ ~HasCloudflareHeaders(req.cfRay, req.cfConnectingIP)
        THEN "Missing Cloudflare headers"
        ELSE "-"

CallNext == [NoResponse EXCEPT !.next = TRUE]

Middleware(config, lg, req, writeOk) ==
    IF config.developmentMode THEN CallNext
    ELSE IF config.allowLocalhost /\ IsLocalhostRequest(req) THEN CallNext
    ELSE IF BlockedBy(config, req) # "-"
    THEN IF LogBlockedRequest(config, lg, writeOk) = UNDEFINED
         THEN [NoResponse EXCEPT !.status = 403]
         ELSE IF ProtectionLog(config, lg, "error", writeOk) = UNDEFINED
         THEN [NoResponse EXCEPT !.status = 500]
         ELSE [NoResponse EXCEPT !.threw = ProtectionLog(config, lg, "error", writeOk)]
    ELSE IF Truthy(req.cfConnectingIP)
    THEN [CallNext EXCEPT !.realClientIP = req.cfConnectingIP]
    ELSE CallNext

-----------------------------------------------------------------------------
(* The constructed state *)

\* the state after `new CacheService({ maxSize: m })`
\* a request the middleware is not handling
IdleRequest == [pc |-> "idle", key |-> NoKey, current |-> 0, failed |-> UNDEFINED]

\* no rate-limit middleware created: no config, no request, no pass
NoLimiter ==
    [config |-> [windowMs |-> 0, maxRequests |-> 0],
     reqs |-> [p \in Procs |-> IdleRequest],
     started |-> 0,
     passed |-> [k \in Keys |-> <<>>]]

\* what this._config.logger can be: null, an object without level methods,
\* an object whose level methods return, or the library's Logger
Sinks == {NULL, "bare", "plain", "Logger"}

\* the constructor's defaults: enableLogging false, logger null
DefaultLogging == [enableLogging |-> FALSE, logger |-> NULL]

\* what this._log(level, ...) throws: the level method is called when
\* logging is enabled and `logger?.[level]` is truthy
CacheLog(lc, lg, level) ==
    IF lc.enableLogging /\ lc.logger = "Logger" THEN Log(lg, level, TRUE).threw
    ELSE UNDEFINED

\* what the constructor's `this._config.logger.info(...)` throws: it is
\* called when logging is enabled and the logger is truthy
ConstructorLog(lc, lg) ==
    IF ~(lc.enableLogging /\ lc.logger # NULL) THEN UNDEFINED
    ELSE IF lc.logger = "bare" THEN "TypeError"
    ELSE IF lc.logger = "Logger" THEN Log(lg, "info", TRUE).threw
    ELSE UNDEFINED

\* the record of an operation that ends with this._log(level, ...) when did
Logged(rec, level, did) ==
    IF did /\ CacheLog(logging, logger, level) # UNDEFINED
    THEN [rec EXCEPT !.threw = CacheLog(logging, logger, level)]
    ELSE rec

\* _cleanup logs when it removed something
Removes(st, t, m) == Len(Cleanup(st, t, m).cache) # Len(st.cache)

Constructed(m) ==
    /\ now = StartTime
    /\ cache = <<>>
    /\ timers = [k \in Keys |-> NoTimer]
    /\ pending = {}
    /\ maxSize = m
    /\ defaultTTL = DefaultTTLSeconds
    /\ cleanupTimer = TRUE
    /\ calls = [p \in Procs |-> Idle]
    /\ destroyed = FALSE
    /\ written = [k \in Keys |-> NotWritten]
    /\ last = Quiet
    /\ logging = DefaultLogging
    /\ limiter = NoLimiter

\* the state after `new CacheService()`
InitStore ==
    /\ Constructed(DefaultMaxSize)
    /\ logger = NewLogger(NoOptions, TRUE)
    /\ protection = DefaultProtectionConfig

\* the store variables take the value st
Becomes(st) ==
    /\ cache' = st.cache
    /\ timers' = st.timers
    /\ pending' = st.pending

\* history: the keys in ks were removed by the size pass
MarkEvicted(w, ks) ==
    [k \in Keys |-> IF k \in ks /\ w[k].st = "live" THEN [w[k] EXCEPT !.st = "evicted"]
                    ELSE IF k \in ks /\ w[k].st = "kept"
                         THEN IF "inserted" \in observe THEN [w[k] EXCEPT !.st = "dropped"]
                              ELSE NotWritten
                    ELSE w[k]]

\* history: set(k, d, ttl) at time t ("kept": a set without expiry, followed
\* when the specification observes "kept")
MarkSet(w, k, d, ttl, t) ==
    [w EXCEPT ![k] = IF ttl > 0 THEN [val |-> d, exp |-> ExpiresAt(ttl, t), st |-> "live"]
                     ELSE IF "kept" \in observe THEN [val |-> d, exp |-> NoExpiry, st |-> "kept"]
                     ELSE NotWritten]

\* history: the set of k replaced an entry (followed when the specification
\* observes "overwritten")
MarkOverwritten(w, k, existed) ==
    IF "overwritten" \in observe /\ existed
    THEN [w EXCEPT ![k] = [@ EXCEPT !.st = "overwritten"]]
    ELSE w

\* history: who set key k while a getOrSet for k awaited its producer
MarkCalls(cs, k, who) ==
    [p \in Procs |-> IF /\ "calls" \in observe
                        /\ cs[p].pc \in {"producing", "stored", "set-rejected"}
                        /\ cs[p].key = k
                     THEN [cs[p] EXCEPT !.by = who] ELSE cs[p]]

\* history of the keys, recorded when the specification observes "written"
Written(w) == IF "written" \in observe THEN w ELSE written

-----------------------------------------------------------------------------
(* Operations *)

Tick ==
    /\ now + 1 <= EndTime
    /\ now' = now + 1
    /\ last' = Last("tick", NoKey, UNDEFINED)
    /\ UNCHANGED <<cache, timers, pending, maxSize, defaultTTL, cleanupTimer,
                   calls, observe, logger, protection, logging, limiter, destroyed, written>>

LiveAt(c, k, t) == Has(c, k) /\ ~Expired(Entry(c, k), t)

\* k has an entry that is time-expired at t
StaleAt(c, k, t) == Has(c, k) /\ Expired(Entry(c, k), t)

Get(k) ==
    /\ Becomes(GetStore(Store, k, now))
    /\ last' = [Last("get", k, GetValue(cache, k, now)) EXCEPT
                   !.live = LiveAt(cache, k, now), !.stale = StaleAt(cache, k, now)]
    /\ UNCHANGED <<now, maxSize, defaultTTL, cleanupTimer, calls, observe, logger, protection, logging, limiter, destroyed, written>>

\* has(k): `(await this.get(key)) !== null`
\* has(key) is called by p: `this.get(key)` runs, and the call awaits it
HasKey(p, k) ==
    /\ calls[p].pc = "idle"
    /\ Becomes(GetStore(Store, k, now))
    /\ calls' = [calls EXCEPT ![p] = [Idle EXCEPT !.pc = "has", !.key = k,
                                                  !.cached = GetValue(cache, k, now)]]
    /\ last' = [Last("has.called", k, UNDEFINED) EXCEPT
                   !.proc = p, !.live = LiveAt(cache, k, now),
                   !.stale = StaleAt(cache, k, now)]
    /\ UNCHANGED <<now, maxSize, defaultTTL, cleanupTimer, observe, logger, protection, logging, limiter, destroyed, written>>

\* after the await: `return data !== null`
HasReturn(p) ==
    /\ calls[p].pc = "has"
    /\ calls' = [calls EXCEPT ![p] = Idle]
    /\ last' = [Last("has", calls[p].key, calls[p].cached # NULL) EXCEPT !.proc = p]
    /\ UNCHANGED <<now, cache, timers, pending, maxSize, defaultTTL, cleanupTimer,
                   observe, logger, protection, logging, limiter, destroyed, written>>

\* mutant: every key physically present is returned
AllKeys(c, t) == [i \in DOMAIN c |-> c[i].key]

\* the array keys() returns at time t
ValidKeys(c, t) ==
    LET valid == SelectSeq(c, LAMBDA e : e.expires = NoExpiry \/ t <= e.expires)
    IN  [i \in DOMAIN valid |-> valid[i].key]

KeysOp ==
    /\ last' = IF "keys" \in observe
               THEN [Last("keys", NoKey, UNDEFINED) EXCEPT !.list = ValidKeys(cache, now)]
               ELSE Quiet
    /\ UNCHANGED <<now, cache, timers, pending, maxSize, defaultTTL, cleanupTimer,
                   calls, observe, logger, protection, logging, limiter, destroyed, written>>

\* _calculateHitRatio, in hundredths
HitRatio(c) == IF Len(c) > 0 THEN 85 ELSE 0

\* mutant: an entry counts as expired from the instant `expires` on
StatsAtOrAfter(st, t, m) ==
    [size |-> Len(st.cache),
     maxSize |-> m,
     timers |-> Cardinality({k \in Keys : st.timers[k] # NoTimer}),
     expired |-> Len(SelectSeq(st.cache, LAMBDA e : e.expires # NoExpiry /\ t >= e.expires)),
     hitRatio |-> HitRatio(st.cache)]

\* the object getStats() returns at time t
Stats(st, t, m) ==
    [size |-> Len(st.cache),
     maxSize |-> m,
     timers |-> Cardinality({k \in Keys : st.timers[k] # NoTimer}),
     expired |-> Len(ExpiredKeys(st.cache, t)),
     hitRatio |-> HitRatio(st.cache)]

GetStats ==
    /\ last' = IF "getStats" \in observe
               THEN [Last("getStats", NoKey, UNDEFINED) EXCEPT
                         !.stats = Stats(Store, now, maxSize)]
               ELSE Quiet
    /\ UNCHANGED <<now, cache, timers, pending, maxSize, defaultTTL, cleanupTimer,
                   calls, observe, logger, protection, logging, limiter, destroyed, written>>

\* set(k, d, ttl); sweep: Math.random() < 0.1
Set(k, d, ttl, sweep) ==
    LET stored == SetStore(Store, k, d, ttl, now)
        ev == IF sweep THEN Range(Evicted(stored, now, maxSize)) ELSE {}
        rec == [Last("set", k, UNDEFINED) EXCEPT !.live = LiveAt(cache, k, now),
                                                  !.prev = timers[k]]
    IN  /\ Becomes(SetSweep(Store, k, d, ttl, now, maxSize, sweep))
        /\ written' = Written(MarkEvicted(MarkOverwritten(MarkSet(written, k, d, ttl, now),
                                                           k, Has(cache, k)), ev))
        /\ calls' = MarkCalls(calls, k, "set")
        /\ last' = IF sweep
                   THEN Logged(Swept(rec, stored, maxSize), "debug",
                               Removes(stored, now, maxSize))
                   ELSE rec
        /\ UNCHANGED <<now, maxSize, defaultTTL, cleanupTimer, observe, logger, protection, logging, limiter, destroyed>>

\* set(k, d) with the ttl omitted: `ttl = this._config.defaultTTL`
SetOmitted(k, d, sweep) == Set(k, d, defaultTTL, sweep)

Del(k) ==
    /\ Becomes(Remove(Store, k))
    /\ written' = Written([written EXCEPT ![k] = NotWritten])
    /\ last' = [Last("del", k, Has(cache, k)) EXCEPT !.live = LiveAt(cache, k, now)]
    /\ UNCHANGED <<now, maxSize, defaultTTL, cleanupTimer, calls, observe, logger, protection, logging, limiter, destroyed>>

Clear ==
    /\ Becomes(ClearStore(Store))
    /\ written' = Written([k \in Keys |-> NotWritten])
    /\ last' = Logged(IF "clear" \in observe
                      THEN [Last("clear", NoKey, UNDEFINED) EXCEPT
                               !.prev = Cardinality(pending)]
                      ELSE Quiet, "info", TRUE)
    /\ UNCHANGED <<now, maxSize, defaultTTL, cleanupTimer, calls, observe, logger, protection, logging, limiter, destroyed>>

\* the callback of a pending timeout has no guard of its own: it runs when the
\* timer facility calls it. The facility measures the delay on a monotonic
\* clock, not on Date.now(), and the callback can run when Date.now() is still
\* TimerEarlyMs short of the due time, which is in the tick before it
TimerFire(h) ==
    /\ h \in pending
    /\ now >= (h.due * TickMs - TimerEarlyMs) \div TickMs
    /\ Becomes(TimerCallback(Store, h))
    /\ written' = Written([written EXCEPT ![h.key] =
                             IF @.st = "live" THEN [@ EXCEPT !.st = "fired"] ELSE @])
    /\ last' = [Last("timer", h.key, UNDEFINED) EXCEPT !.live = LiveAt(cache, h.key, now)]
    /\ UNCHANGED <<now, maxSize, defaultTTL, cleanupTimer, calls, observe, logger, protection, logging, limiter, destroyed>>

\* the setInterval callback of _startCleanupTimer
PeriodicSweep ==
    /\ cleanupTimer
    /\ Becomes(Cleanup(Store, now, maxSize))
    /\ written' = Written(MarkEvicted(written, Range(Evicted(Store, now, maxSize))))
    /\ last' = Logged(Swept(Last("sweep", NoKey, UNDEFINED), Store, maxSize), "debug",
                      Removes(Store, now, maxSize))
    /\ UNCHANGED <<now, maxSize, defaultTTL, cleanupTimer, calls, observe, logger, protection, logging, limiter, destroyed>>

SetMaxSize(n) ==
    /\ maxSize' = n
    /\ Becomes(Cleanup(Store, now, n))
    /\ written' = Written(MarkEvicted(written, Range(Evicted(Store, now, n))))
    /\ last' = Logged(Swept([Last("setMaxSize", NoKey, UNDEFINED) EXCEPT !.prev = maxSize],
                            Store, n), "debug", Removes(Store, now, n))
    /\ UNCHANGED <<now, defaultTTL, cleanupTimer, calls, observe, logger, protection, logging, limiter, destroyed>>

\* setConfig({maxSize: n}): no cleanupInterval among the options
SetConfigMaxSize(n) ==
    /\ maxSize' = n
    /\ last' = [Last("setConfig", NoKey, UNDEFINED) EXCEPT !.prev = maxSize]
    /\ UNCHANGED <<now, cache, timers, pending, defaultTTL, cleanupTimer, calls,
                   observe, logger, protection, logging, limiter, destroyed, written>>

\* _stopCleanupTimer: whether this._cleanupTimer is set afterwards
StopCleanupTimer(running) == FALSE

\* mutant: no periodic timer is started
StartNoCleanupTimer(running, i) == running

\* _startCleanupTimer with cleanupInterval i
StartCleanupTimer(running, i) == IF i > 0 THEN TRUE ELSE running

\* setConfig({cleanupInterval: i}): _stopCleanupTimer, then _startCleanupTimer
SetConfigInterval(i) ==
    /\ cleanupTimer' = StartCleanupTimer(StopCleanupTimer(cleanupTimer), i)
    /\ last' = IF "setConfig" \in observe
               THEN [Last("setConfig", NoKey, UNDEFINED) EXCEPT !.prev = maxSize, !.list = <<i>>]
               ELSE Quiet
    /\ UNCHANGED <<now, cache, timers, pending, maxSize, defaultTTL, calls,
                   observe, logger, protection, logging, limiter, destroyed, written>>

SetDefaultTTL(ttl) ==
    /\ defaultTTL' = ttl
    /\ last' = Last("setDefaultTTL", NoKey, UNDEFINED)
    /\ UNCHANGED <<now, cache, timers, pending, maxSize, cleanupTimer, calls,
                   observe, logger, protection, logging, limiter, destroyed, written>>

Destroy ==
    /\ cleanupTimer' = FALSE
    /\ Becomes(ClearStore(Store))
    /\ destroyed' = ("destroyed" \in observe)
    /\ written' = Written([k \in Keys |-> NotWritten])
    /\ last' = Logged(IF "destroy" \in observe
                      THEN [Last("destroy", NoKey, UNDEFINED) EXCEPT
                               !.prev = IF destroyed THEN 1 ELSE 0]
                      ELSE Quiet, "info", TRUE)
    /\ UNCHANGED <<now, maxSize, defaultTTL, calls, observe, logger, protection, logging, limiter>>

\* getOrSet(k, queryFn, ttl) up to `await queryFn()`: the cached value is
\* returned, or the producer is invoked
\* getOrSet(key, queryFn, ttl) is called by p: `this.get(key)` runs, and the
\* call awaits it
GetOrSetCall(p, k, ttl) ==
    /\ calls[p].pc = "idle"
    /\ Becomes(GetStore(Store, k, now))
    /\ calls' = [calls EXCEPT ![p] = [Idle EXCEPT !.pc = "getting", !.key = k, !.ttl = ttl,
                                                  !.cached = GetValue(cache, k, now)]]
    /\ last' = [Last("getOrSet.called", k, UNDEFINED) EXCEPT
                   !.proc = p, !.live = LiveAt(cache, k, now)]
    /\ UNCHANGED <<now, maxSize, defaultTTL, cleanupTimer, observe, logger, protection, logging, limiter, destroyed, written>>

\* after the await of get: `if (cached !== null) return cached`, otherwise
\* queryFn() is invoked and awaited
GetOrSetCached(p) ==
    /\ calls[p].pc = "getting"
    /\ IF calls[p].cached # NULL
       THEN /\ calls' = [calls EXCEPT ![p] = Idle]
            /\ last' = [Last("getOrSet", calls[p].key, calls[p].cached) EXCEPT !.proc = p]
       ELSE /\ calls' = [calls EXCEPT ![p].pc = "producing"]
            /\ last' = [Last("queryFn", calls[p].key, UNDEFINED) EXCEPT !.proc = p]
    /\ UNCHANGED <<now, cache, timers, pending, maxSize, defaultTTL, cleanupTimer,
                   observe, logger, protection, logging, limiter, destroyed, written>>

\* the producer resolved with d: `this.set(key, data, ttl)` runs, and the
\* call awaits it, also when the set throws in its sweep's log: its promise
\* is rejected and the catch block runs after the await
ProducerResolve(p, d, sweep) ==
    LET k == calls[p].key
        ttl == calls[p].ttl
        stored == SetStore(Store, k, d, ttl, now)
        ev == IF sweep THEN Range(Evicted(stored, now, maxSize)) ELSE {}
        rec == [Last("getOrSet.set", k, d) EXCEPT !.proc = p, !.raced = calls[p].by]
        done == IF sweep
                THEN Logged(Swept(rec, stored, maxSize), "debug",
                            Removes(stored, now, maxSize))
                ELSE rec
    IN  /\ calls[p].pc = "producing"
        /\ Becomes(SetSweep(Store, k, d, ttl, now, maxSize, sweep))
        /\ written' = Written(MarkEvicted(MarkOverwritten(MarkSet(written, k, d, ttl, now),
                                                           k, Has(cache, k)), ev))
        /\ calls' = [MarkCalls(calls, k, p) EXCEPT
                        ![p] = IF done.threw # UNDEFINED
                               THEN [calls[p] EXCEPT !.pc = "set-rejected", !.cached = d,
                                                     !.failed = done.threw]
                               ELSE [calls[p] EXCEPT !.pc = "stored", !.cached = d]]
        /\ last' = done
        /\ UNCHANGED <<now, maxSize, defaultTTL, cleanupTimer, observe, logger, protection, logging, limiter, destroyed>>

\* after the await of set: `return data`
GetOrSetReturn(p) ==
    /\ calls[p].pc = "stored"
    /\ calls' = [calls EXCEPT ![p] = Idle]
    /\ last' = [Last("getOrSet.resolved", calls[p].key, calls[p].cached) EXCEPT
                   !.proc = p, !.raced = calls[p].by]
    /\ UNCHANGED <<now, cache, timers, pending, maxSize, defaultTTL, cleanupTimer,
                   observe, logger, protection, logging, limiter, destroyed, written>>

\* after the await of a set that threw: the catch block logs the error and
\* rethrows it
GetOrSetCatch(p) ==
    /\ calls[p].pc = "set-rejected"
    /\ calls' = [calls EXCEPT ![p] = Idle]
    /\ last' = Logged([Last("getOrSet.failed", calls[p].key, calls[p].failed) EXCEPT
                          !.proc = p, !.raced = calls[p].by, !.cause = calls[p].failed,
                          !.threw = calls[p].failed],
                      "error", TRUE)
    /\ UNCHANGED <<now, cache, timers, pending, maxSize, defaultTTL, cleanupTimer,
                   observe, logger, protection, logging, limiter, destroyed, written>>

\* what a producer may fail with: an error, or (`Promise.reject(null)`,
\* `throw undefined`) no object at all
Errors == {"boom", NULL}

\* what the catch block of getOrSet throws: the arguments of this._log read
\* error.message and error.stack, which is a TypeError when error is null or
\* undefined; otherwise `throw error`
Rethrown(err) == IF err = NULL THEN "TypeError" ELSE err

\* the store after the catch block of getOrSet: nothing is cached
FailStore(st, k, err, t) == st

\* the producer failed: the catch block of getOrSet runs
ProducerReject(p, err) ==
    /\ calls[p].pc = "producing"
    /\ Becomes(FailStore(Store, calls[p].key, err, now))
    /\ calls' = [calls EXCEPT ![p] = Idle]
    /\ last' = Logged([Last("getOrSet.rejected", calls[p].key, Rethrown(err)) EXCEPT
                          !.proc = p, !.raced = calls[p].by, !.cause = err],
                      "error", err # NULL)
    /\ UNCHANGED <<now, maxSize, defaultTTL, cleanupTimer, observe, logger, protection, logging, limiter, destroyed, written>>

-----------------------------------------------------------------------------
(* The cache: every operation that changes the store.  has and getOrSet,
   which act on the store as get and set do, are followed through their
   awaits in SpecCalls, SpecQuery and SpecRead. *)

Next ==
    \/ Tick
    \/ \E k \in TwoKeys : Get(k)
    \/ KeysOp
    \/ GetStats
    \/ \E k \in TwoKeys, d \in Storable, ttl \in TTLs, sweep \in BOOLEAN :
          Set(k, d, ttl, sweep)
    \/ \E k \in TwoKeys : Del(k)
    \/ Clear
    \/ \E h \in pending : TimerFire(h)
    \/ PeriodicSweep
    \/ \E n \in Sizes : SetMaxSize(n)
    \/ \E n \in Sizes : SetConfigMaxSize(n)
    \/ \E i \in Intervals : SetConfigInterval(i)
    \/ Destroy

\* the operations recorded in `last`: those that schedule or fire a timer, run
\* a sweep or change maxSize
Observed == {"set", "timer", "sweep", "setMaxSize", "setConfig"}

Init == InitStore /\ observe = Observed

Spec == Init /\ [][Next]_vars

-----------------------------------------------------------------------------
(* Expiry: sets with a ttl, reads, and everything that removes an entry.  The
   history `written` follows each key from its last set with a ttl. *)

NextExpiry ==
    \/ Tick
    \/ \E k \in TwoKeys : Get(k)
    \/ \E k \in TwoKeys, d \in Storable, ttl \in TTLs \cup {BigTTL}, sweep \in BOOLEAN :
          Set(k, d, ttl, sweep)
    \/ \E k \in TwoKeys : Del(k)
    \/ Clear
    \/ \E h \in pending : TimerFire(h)
    \/ PeriodicSweep
    \/ \E n \in Sizes : SetMaxSize(n)

InitExpiry == InitStore /\ observe = {"get", "written"}

SpecExpiry == InitExpiry /\ [][NextExpiry]_vars

-----------------------------------------------------------------------------
(* C1 *)

\* C1 (expiry correctness) as claimed: for a key stored by set(k, v, t) with
\* t > 0 at time T and not deleted, cleared or overwritten afterwards, get(k)
\* returns v for every read strictly before T + t*1000 and returns null for
\* every read at or after T + t*1000.
Orig_C1_Expiry ==
    (last.op = "get" /\ written[last.key].st \in {"live", "fired", "evicted"}) =>
        /\ now < written[last.key].exp => last.val = written[last.key].val
        /\ now >= written[last.key].exp => last.val = NULL

\* what holds of every read: get(k) returns null strictly after T + t*1000,
\* whether or not the timer or a sweep has run; and it returns v at or before
\* T + t*1000 while the key's timer has not run and no size pass has evicted
\* the key.
Thm_C1_Expiry ==
    last.op = "get" =>
        /\ (written[last.key].st = "live" /\ now <= written[last.key].exp) =>
              last.val = written[last.key].val
        /\ (written[last.key].st \in {"live", "fired", "evicted"}
              /\ now > written[last.key].exp) =>
              last.val = NULL

\* a get at the very instant T + t*1000 has returned the value
Wit_C1_Expiry ==
    /\ last.op = "get"
    /\ written[last.key].st = "live"
    /\ now = written[last.key].exp
    /\ last.val = written[last.key].val

\* the key's timer has run before the due time: a get strictly before
\* T + t*1000 has returned null
Wit_C1_EarlyRemoval ==
    /\ last.op = "get"
    /\ written[last.key].st = "fired"
    /\ now < written[last.key].exp
    /\ last.val = NULL

\* a get after that instant has returned null although neither the timer nor
\* a sweep had removed the entry
Wit_C1_ExpiredRead ==
    /\ last.op = "get"
    /\ written[last.key].st = "live"
    /\ now > written[last.key].exp
    /\ last.val = NULL
    /\ last.live = FALSE

-----------------------------------------------------------------------------
(* C2 *)

\* C2 (size bound after sweep): whenever a sweep (_cleanup) has completed,
\* whatever ran it (the periodic timer, set, setMaxSize), the number of stored
\* entries is at most the configured maxSize.
Orig_C2_SizeBoundAfterSweep ==
    last.swept => Len(cache) <= maxSize

-----------------------------------------------------------------------------
(* C3 *)

\* C3 (I1): in every reachable state, every key that has a pending
\* expiry-timer handle in this.timers also has an entry in the store.
Thm_C3_TimerHasEntry ==
    \A k \in Keys : timers[k] # NoTimer => Has(cache, k)

\* a timer has just fired and removed its key, and another key still holds a
\* handle and its entry
Wit_C3_TimerHasEntry ==
    /\ last.op = "timer"
    /\ \E k \in Keys : k # last.key /\ timers[k] # NoTimer /\ Has(cache, k)

-----------------------------------------------------------------------------
(* C4 *)

\* C4 (no stale timer): every timeout pending in the timer facility is the
\* one this.timers records for its key, that key has an entry, and the
\* timeout was scheduled by the set that wrote this entry (its due time is
\* the entry's creation time plus the delay of the entry's ttl); so at most
\* one timeout is pending per key, and a timer that fires removes only the
\* entry it was scheduled for.
Thm_C4_NoStaleTimer ==
    \A h \in pending :
        /\ timers[h.key] = h.id
        /\ Has(cache, h.key)
        /\ Entry(cache, h.key).expires # NoExpiry
        /\ h.due = Entry(cache, h.key).created
                     + TimerDelay(Entry(cache, h.key).expires - Entry(cache, h.key).created)
        /\ \A g \in pending : g.key = h.key => g = h

\* a set has just overwritten a key whose timer was pending, at a later time
\* than that timer was scheduled, and exactly one timeout is pending for it
Wit_C4_NoStaleTimer ==
    /\ last.op = "set"
    /\ last.prev # NoTimer
    /\ now > StartTime
    /\ Cardinality({h \in pending : h.key = last.key}) = 1

-----------------------------------------------------------------------------
(* C5 *)

\* the number of entries the size pass of the last sweep started with
SizePassCount == Len(cache) + Cardinality(last.evicted)

\* C5 (oldest-first eviction): when the size pass of a sweep runs with c
\* surviving entries and c > maxSize, it removes exactly c - maxSize entries
\* with their timer handles, and every removed entry was created no later
\* than every entry that survives.
Orig_C5_OldestFirst ==
    (last.swept /\ SizePassCount > maxSize) =>
        /\ Cardinality(last.evicted) = SizePassCount - maxSize
        /\ \A r \in last.evicted :
              /\ ~Has(cache, r.key)
              /\ timers[r.key] = NoTimer
              /\ \A i \in DOMAIN cache : r.created <= cache[i].created

-----------------------------------------------------------------------------
(* getOrSet: two callers and one key, with the producers' results and
   failures, plain sets and deletes of the key, its timer and the sweeps *)

CallKey == "k1"
OtherKey == "k2"

NextCalls ==
    \/ Tick
    \/ Get(CallKey)
    \/ \E d \in Produced, ttl \in TTLs, sweep \in BOOLEAN : Set(CallKey, d, ttl, sweep)
    \/ Del(CallKey)
    \/ \E h \in pending : TimerFire(h)
    \/ PeriodicSweep
    \/ \E p \in Procs, ttl \in TTLs : GetOrSetCall(p, CallKey, ttl)
    \/ \E p \in Procs : GetOrSetCached(p)
    \/ \E p \in Procs : GetOrSetReturn(p)
    \/ \E p \in Procs, d \in Produced, sweep \in BOOLEAN : ProducerResolve(p, d, sweep)
    \/ \E p \in Procs, err \in Errors : ProducerReject(p, err)

InitCalls ==
    InitStore /\ observe = {"calls", "getOrSet.called", "getOrSet", "queryFn",
                            "getOrSet.set", "getOrSet.resolved", "getOrSet.rejected"}

SpecCalls == InitCalls /\ [][NextCalls]_vars

-----------------------------------------------------------------------------
(* C6 *)

\* C6 (getOrSet correctness): for a key with a live (present, unexpired)
\* entry at the call, whatever value is stored, the producer is not invoked
\* and the stored value is returned; for a key with no live entry the
\* producer is invoked, and its result is what the call stores under the key
\* and what it returns.
Orig_C6_GetOrSet ==
    [][/\ (last'.op = "getOrSet.called" /\ last'.live) =>
              /\ calls'[last'.proc].cached # NULL
              /\ calls'[last'.proc].cached = Entry(cache, last'.key).data
       /\ last'.op = "queryFn" => calls[last'.proc].cached = NULL
       /\ last'.op = "getOrSet" => last'.val = calls[last'.proc].cached
       /\ last'.op = "getOrSet.set" =>
              (Has(cache', last'.key) => Entry(cache', last'.key).data = last'.val)
       /\ last'.op = "getOrSet.resolved" => last'.val = calls[last'.proc].cached]_vars

-----------------------------------------------------------------------------
(* C7 *)

\* C7 (getOrSet failure): the step in which getOrSet rejects after its
\* producer failed rejects with the producer's own error and leaves the store,
\* the timer table and the pending timeouts as they were (nothing is stored,
\* no timer is scheduled); and when no set of the key ran while the producer
\* was awaited, a get of the key after the rejection returns null.
Orig_C7_GetOrSetFailure ==
    [][last'.op = "getOrSet.rejected" =>
          /\ last'.val = last'.cause
          /\ cache' = cache /\ timers' = timers /\ pending' = pending
          /\ last'.raced = "-" => GetValue(cache', last'.key, now') = NULL]_vars

-----------------------------------------------------------------------------
(* C8 *)

\* C8 (no single-flight): the set of a getOrSet whose producer has resolved
\* stores that producer's result, also when another call for the same key
\* overlaps it, so the entry left under the key holds the value of the set
\* that ran last; and the call returns its own producer's result, whatever
\* was stored under the key since its set, and changes nothing in returning.
\* (That both overlapping calls invoke their producer is the witness.)
Thm_C8_NoSingleFlight ==
    [][/\ last'.op = "getOrSet.set" =>
              /\ last'.val \in Produced
              /\ calls'[last'.proc].cached = last'.val
              /\ Has(cache', last'.key) => Entry(cache', last'.key).data = last'.val
       /\ last'.op = "getOrSet.resolved" =>
              /\ last'.val = calls[last'.proc].cached
              /\ cache' = cache /\ timers' = timers /\ pending' = pending]_vars

\* two calls for the same key overlapped: the other call's set ran after this
\* one's, this one has now returned its own producer's value, and the value
\* in the cache is the other one
Wit_C8_NoSingleFlight ==
    /\ last.op = "getOrSet.resolved"
    /\ last.raced \in Procs
    /\ Has(cache, last.key)
    /\ Entry(cache, last.key).data # last.val

\* two calls for the same missing key await their producers at the same time
Wit_C8_BothProducing ==
    \A p \in Procs : calls[p].pc = "producing" /\ calls[p].key = CallKey

-----------------------------------------------------------------------------
(* C9 *)

InitDestroy == InitStore /\ observe = {"destroyed"}

SpecDestroy == InitDestroy /\ [][Next]_vars

\* C9: after destroy() the store remains empty: no sequence of further
\* operations leaves an entry, a timer handle or a pending timeout.
Orig_C9_EmptyAfterDestroy ==
    destroyed =>
        /\ cache = <<>>
        /\ pending = {}
        /\ \A k \in Keys : timers[k] = NoTimer

-----------------------------------------------------------------------------
(* C10 *)

\* C10 (shrinking maxSize is enforced immediately), for a new maxSize that is
\* a valid size: after setMaxSize or setConfig has lowered maxSize, the store
\* holds at most the new maxSize entries.
Orig_C10_ShrinkEnforced ==
    (last.op \in {"setMaxSize", "setConfig"} /\ maxSize < last.prev /\ maxSize >= 0) =>
        Len(cache) <= maxSize

-----------------------------------------------------------------------------
(* C11 *)

\* ttl arguments that ask for no expiry, and one that asks for one
AnyTTLs == {-1, 0, 1}
\* defaultTTL values setDefaultTTL is called with
DefaultTTLs == {-1, 0}

NextNoExpiry ==
    \/ Tick
    \/ \E k \in TwoKeys : Get(k)
    \/ \E k \in TwoKeys, d \in Storable, ttl \in AnyTTLs, sweep \in BOOLEAN :
          Set(k, d, ttl, sweep)
    \/ \E k \in TwoKeys, d \in Storable, sweep \in BOOLEAN : SetOmitted(k, d, sweep)
    \/ \E ttl \in DefaultTTLs : SetDefaultTTL(ttl)
    \/ \E k \in TwoKeys : Del(k)
    \/ Clear
    \/ \E h \in pending : TimerFire(h)
    \/ PeriodicSweep
    \/ \E n \in Sizes : SetMaxSize(n)

InitNoExpiry == InitStore /\ observe = {"get", "written", "kept"}

SpecNoExpiry == InitNoExpiry /\ [][NextNoExpiry]_vars

\* C11 (no-expiry entries): a key stored by set with ttl = 0 or ttl negative
\* (given explicitly or through defaultTTL), and not deleted, cleared,
\* overwritten or evicted by a size pass since, has an entry without expiry,
\* has no timer handle and no pending timeout, and every get of it, however
\* much later, returns the stored value.
Thm_C11_NoExpiry ==
    /\ \A k \in Keys : written[k].st = "kept" =>
          /\ Has(cache, k)
          /\ Entry(cache, k).expires = NoExpiry
          /\ Entry(cache, k).data = written[k].val
          /\ timers[k] = NoTimer
          /\ \A h \in pending : h.key # k
    /\ (last.op = "get" /\ written[last.key].st = "kept") =>
          last.val = written[last.key].val

\* a get at the last instant explored, the defaultTTL being negative, has
\* returned the value a set without expiry stored at an earlier instant
Wit_C11_NoExpiry ==
    /\ last.op = "get"
    /\ written[last.key].st = "kept"
    /\ defaultTTL < 0
    /\ now = EndTime
    /\ Entry(cache, last.key).created < now
    /\ last.val = written[last.key].val

-----------------------------------------------------------------------------
(* C12: distinct keys inserted once each, without ttl, in the order of
   KeyOrder, at non-decreasing times, into a cache constructed with a maxSize
   of 1 or 2; reads and sweeps in between *)

KeyOrder == <<"k1", "k2", "k3">>
SmallSizes == {1, 2}

\* history: the keys inserted so far ("dropped": evicted by a size pass since)
InsertedKeys == {k \in Keys : written[k].st \in {"kept", "dropped"}}

\* set(KeyOrder[i], d, 0) of the next key not inserted yet
Insert(i, d, sweep) ==
    /\ i = Cardinality(InsertedKeys) + 1
    /\ Set(KeyOrder[i], d, 0, sweep)

NextInsert ==
    \/ Tick
    \/ \E i \in DOMAIN KeyOrder, d \in Storable, sweep \in BOOLEAN : Insert(i, d, sweep)
    \/ \E k \in Keys : Get(k)
    \/ PeriodicSweep

InitInsert ==
    /\ \E m \in SmallSizes : Constructed(m)
    /\ logger = NewLogger(NoOptions, TRUE)
    /\ protection = DefaultProtectionConfig
    /\ observe = {"set", "sweep", "written", "kept", "inserted"}

SpecInsert == InitInsert /\ [][NextInsert]_vars

Min(a, b) == IF a <= b THEN a ELSE b

\* the last n elements of s
LastOf(s, n) == SubSeq(s, Len(s) - n + 1, Len(s))

\* C12 (insertion-order eviction under ties): when distinct keys were each
\* inserted once without ttl, in order, at non-decreasing (possibly equal)
\* times, then after a sweep the store holds exactly the last maxSize keys
\* inserted (all of them when fewer were inserted), in insertion order,
\* whether or not sweeps ran during the insertions.
Thm_C12_InsertionOrder ==
    last.swept =>
        LET n == Cardinality(InsertedKeys)
        IN  [i \in DOMAIN cache |-> cache[i].key] =
                LastOf(SubSeq(KeyOrder, 1, n), Min(n, maxSize))

\* maxSize = 2 and the three keys were inserted at one and the same instant;
\* the sweep that has just run evicted one entry and left the last two
Wit_C12_InsertionOrder ==
    /\ last.swept
    /\ maxSize = 2
    /\ Cardinality(InsertedKeys) = 3
    /\ Cardinality(last.evicted) = 1
    /\ MapKeys(cache) = {"k2", "k3"}
    /\ \A i \in DOMAIN cache : cache[i].created = StartTime

-----------------------------------------------------------------------------
(* C13 *)

\* C13 (LRU eviction): a step that enforces the size limit never evicts an
\* unexpired entry that was read by get more recently than an entry that
\* survives the step.
Orig_C13_LRU ==
    [][last'.swept =>
          \A i \in DOMAIN cache :
              (~Has(cache', cache[i].key) /\ ~Expired(cache[i], now)
                 /\ cache[i].lastAccessed > cache[i].created) =>
                  \A j \in DOMAIN cache' :
                      cache[i].lastAccessed <= cache'[j].lastAccessed]_vars

-----------------------------------------------------------------------------
(* del, has and keys: their results, over a store whose entries hold any
   value (null too), expire, are overwritten, swept and removed by timers *)

NextQuery ==
    \/ Tick
    \/ \E k \in TwoKeys, d \in Storable \cup {NULL}, ttl \in TTLs, sweep \in BOOLEAN :
          Set(k, d, ttl, sweep)
    \/ \E k \in TwoKeys : Del(k)
    \/ \E k \in TwoKeys : HasKey("p2", k)
    \/ HasReturn("p2")
    \/ KeysOp
    \/ \E h \in pending : TimerFire(h)
    \/ PeriodicSweep

InitQuery == InitStore /\ observe = {"del", "has.called", "has", "keys"}

SpecQuery == InitQuery /\ [][NextQuery]_vars

-----------------------------------------------------------------------------
(* C14 *)

\* C14 (deletion): a del(k) step returns true exactly when k had an entry
\* (expired or not) before the call, leaves k without entry, timer handle and
\* pending timeout, and leaves every other entry as it was; a del(k) that
\* follows a del(k) at once returns false.
Thm_C14_Del ==
    [][last'.op = "del" =>
          /\ last'.val = Has(cache, last'.key)
          /\ ~Has(cache', last'.key)
          /\ timers'[last'.key] = NoTimer
          /\ \A h \in pending' : h.key # last'.key
          /\ cache' = MapDelete(cache, last'.key)
          /\ (last.op = "del" /\ last.key = last'.key) => last'.val = FALSE]_vars

\* del(k) has returned true and removed k, and the timeout of the other key
\* is still pending
Wit_C14_Del ==
    /\ last.op = "del"
    /\ last.val = TRUE
    /\ ~Has(cache, last.key)
    /\ pending # {}

-----------------------------------------------------------------------------
(* C15 *)

\* C15: the result of has(k), fixed when its get has run, is true exactly
\* when k had an entry that was not time-expired at the call, whatever value
\* is stored under k, and agrees with what keys() returns at that instant on
\* the membership of k; has returns that result.
Orig_C15_Has ==
    /\ [](last.op = "has.called" =>
             /\ (calls[last.proc].cached # NULL) = last.live
             /\ (calls[last.proc].cached # NULL) = (last.key \in Range(ValidKeys(cache, now))))
    /\ [][last'.op = "has" => last'.val = (calls[last'.proc].cached # NULL)]_vars

-----------------------------------------------------------------------------
(* C16 *)

\* C16: a keys() step returns exactly the keys whose entries are not
\* time-expired at the moment of the call, each once and in the order of the
\* store, and leaves the store, the timer table and the pending timeouts
\* unchanged, also when expired entries are physically present.
Thm_C16_Keys ==
    [][last'.op = "keys" =>
          /\ Range(last'.list) = {k \in Keys : LiveAt(cache, k, now)}
          /\ Len(last'.list) = Cardinality(Range(last'.list))
          /\ \A i, j \in DOMAIN cache :
                (i < j /\ LiveAt(cache, cache[i].key, now) /\ LiveAt(cache, cache[j].key, now)) =>
                  \E a, b \in DOMAIN last'.list :
                      a < b /\ last'.list[a] = cache[i].key /\ last'.list[b] = cache[j].key
          /\ cache' = cache /\ timers' = timers /\ pending' = pending]_vars

\* keys() has returned one key and left out the other, whose expired entry
\* and timer are still in the store
Wit_C16_Keys ==
    /\ last.op = "keys"
    /\ Len(last.list) = 1
    /\ \E i \in DOMAIN cache :
          /\ Expired(cache[i], now)
          /\ timers[cache[i].key] # NoTimer
          /\ cache[i].key \notin Range(last.list)

-----------------------------------------------------------------------------
(* The life of the periodic sweep: destroy, setConfig and the operations
   that leave it alone *)

NextLife ==
    \/ Tick
    \/ \E k \in TwoKeys, d \in Storable, ttl \in TTLs, sweep \in BOOLEAN :
          Set(k, d, ttl, sweep)
    \/ \E k \in TwoKeys : Del(k)
    \/ Clear
    \/ \E h \in pending : TimerFire(h)
    \/ PeriodicSweep
    \/ SetMaxSize(1)
    \/ SetConfigMaxSize(1)
    \/ \E i \in Intervals : SetConfigInterval(i)
    \/ SetDefaultTTL(0)
    \/ Destroy

InitLife == InitStore /\ observe = {"destroy", "setConfig", "destroyed"}

SpecLife == InitLife /\ [][NextLife]_vars

-----------------------------------------------------------------------------
(* C17 *)

\* what holds of every destroy() step, whatever it then logs: it stops the
\* periodic sweep, leaves no timeout pending (so no timer scheduled before it
\* runs after it), no timer handle and no entry; and a destroy() of a cache
\* that is stopped and empty already, such as a second destroy(), changes
\* nothing. (The statement of C17 is Orig_C17_Destroy, below the logger.)
Thm_C17_Destroy ==
    [][last'.op = "destroy" =>
          /\ ~cleanupTimer'
          /\ pending' = {}
          /\ cache' = <<>>
          /\ \A k \in Keys : timers'[k] = NoTimer
          /\ (~cleanupTimer /\ cache = <<>> /\ pending = {}) =>
                /\ cache' = cache /\ timers' = timers /\ pending' = pending
                /\ cleanupTimer' = cleanupTimer /\ maxSize' = maxSize
                /\ defaultTTL' = defaultTTL]_vars

\* destroy() has just run for the second time, on a later instant than the
\* cache was constructed, and the cache is stopped and empty
Wit_C17_Destroy ==
    /\ last.op = "destroy"
    /\ last.prev = 1
    /\ now > StartTime
    /\ ~cleanupTimer /\ cache = <<>> /\ pending = {}

-----------------------------------------------------------------------------
(* C18 *)

\* C18 as claimed: the periodic sweep, once started, is stopped by destroy()
\* only; no other operation stops it.
Orig_C18_OnlyDestroyStops ==
    [][(cleanupTimer /\ ~cleanupTimer') => last'.op = "destroy"]_vars

\* C18 as amended: the periodic sweep, once started, is stopped only by
\* destroy() and by setConfig called with a cleanupInterval that is not
\* greater than 0; setConfig with a cleanupInterval greater than 0 leaves a
\* periodic sweep running, and set, del, clear, setMaxSize, setConfig without
\* cleanupInterval, setDefaultTTL, timer callbacks and sweeps leave it as it is.
Thm_C18_WhoStopsTheSweep ==
    [][(/\ (cleanupTimer /\ ~cleanupTimer') =>
             (\/ last'.op = "destroy"
              \/ (last'.op = "setConfig" /\ last'.list # <<>> /\ last'.list[1] <= 0))
        /\ (last'.op = "setConfig" /\ last'.list # <<>> /\ last'.list[1] > 0) =>
             cleanupTimer'
        /\ (last'.op = "setConfig" /\ last'.list = <<>>) =>
             (cleanupTimer' = cleanupTimer))]_vars

\* setConfig({cleanupInterval: 0}) has stopped the periodic sweep of a cache
\* that was never destroyed
Wit_C18_WhoStopsTheSweep ==
    /\ last.op = "setConfig"
    /\ last.list = <<0>>
    /\ ~cleanupTimer
    /\ ~destroyed

-----------------------------------------------------------------------------
(* C19 *)

\* C19 (eager configuration validation): a maxSize <= 0 is rejected by the
\* constructor, setMaxSize and setConfig, so no reachable cache has a
\* non-positive maxSize.
Orig_C19_ValidMaxSize ==
    maxSize > 0

-----------------------------------------------------------------------------
(* generateKey.  A params object is the sequence of its [k, v] properties in
   insertion order; the keys are strings that are no array indices, so that
   Object.keys lists them in insertion order.  Values are given by their JSON
   text. *)

\* params objects hold at most this many properties
MaxParams == 3

\* "U00E9" stands for the one-character key U+00E9 and "eU0301" for the
\* two-character key U+0065 U+0301: different strings, canonically equivalent
ParamKeys == {"a", "b", "U00E9", "eU0301"}
ParamValues == {"1", "2"}
Endpoints == {"e", "f"}

\* the place of a key in the collation order String.prototype.localeCompare
\* compares by: canonically equivalent strings have the same place
Collation(k) ==
    CASE k = "a" -> 1
      [] k = "b" -> 2
      [] k = "U00E9" -> 3
      [] k = "eU0301" -> 3

\* a.localeCompare(b)
LocaleCompare(a, b) == Collation(a) - Collation(b)

\* the params objects: sequences of properties with distinct keys
AllParams ==
    UNION {{p \in [1..n -> [k : ParamKeys, v : ParamValues]] :
              \A i, j \in 1..n : i # j => p[i].k # p[j].k} : n \in 0..MaxParams}

\* Object.keys(params)
ObjectKeys(p) == [i \in DOMAIN p |-> p[i].k]

\* params[key]
Property(p, key) == p[CHOOSE i \in DOMAIN p : p[i].k = key].v

\* Array.prototype.sort((a, b) => a.localeCompare(b)): stable
RECURSIVE InsertKey(_, _)
InsertKey(s, key) ==
    IF s = <<>> THEN <<key>>
    ELSE IF LocaleCompare(key, s[Len(s)]) < 0
         THEN Append(InsertKey(SubSeq(s, 1, Len(s) - 1), key), s[Len(s)])
         ELSE Append(s, key)

RECURSIVE SortKeys(_)
SortKeys(ks) ==
    IF ks = <<>> THEN <<>>
    ELSE InsertKey(SortKeys(SubSeq(ks, 1, Len(ks) - 1)), ks[Len(ks)])

\* the object the reduce builds: the properties in sorted key order
SortedParams(p) ==
    LET ks == SortKeys(ObjectKeys(p))
    IN  [i \in DOMAIN ks |-> [k |-> ks[i], v |-> Property(p, ks[i])]]

\* the properties of JSON.stringify(o) from the i-th on
RECURSIVE Members(_, _)
Members(o, i) ==
    IF i > Len(o) THEN ""
    ELSE (IF i > 1 THEN "," ELSE "") \o "\"" \o o[i].k \o "\":" \o o[i].v
         \o Members(o, i + 1)

\* JSON.stringify(o)
Stringify(o) == "{" \o Members(o, 1) \o "}"

GenerateKey(endpoint, p) ==
    LET sortedParams == SortedParams(p)
        paramString == IF Len(ObjectKeys(sortedParams)) > 0
                       THEN ":" \o Stringify(sortedParams) ELSE ""
    IN  "api:" \o endpoint \o paramString

\* a call generateKey(endpoint, p)
GenerateKeyCall(endpoint, p) ==
    /\ last' = IF "generateKey" \in observe
               THEN [Last("generateKey", endpoint, GenerateKey(endpoint, p)) EXCEPT !.list = p]
               ELSE Quiet
    /\ UNCHANGED <<now, cache, timers, pending, maxSize, defaultTTL, cleanupTimer,
                   calls, observe, logger, protection, logging, limiter, destroyed, written>>

NextKey == \E endpoint \in Endpoints, p \in AllParams : GenerateKeyCall(endpoint, p)

InitKey == InitStore /\ observe = {"generateKey"}

SpecKey == InitKey /\ [][NextKey]_vars

\* p and q hold the same key/value pairs
SamePairs(p, q) == Range(p) = Range(q)

-----------------------------------------------------------------------------
(* C20 *)

\* C20 (key determinism): generateKey has returned the string it returns for
\* every params object that holds the same key/value pairs in another
\* insertion order; and for empty params it has returned "api:" + endpoint.
Orig_C20_KeyDeterminism ==
    last.op = "generateKey" =>
        /\ \A q \in AllParams :
              SamePairs(q, last.list) => GenerateKey(last.key, q) = last.val
        /\ last.list = <<>> => last.val = "api:" \o last.key

-----------------------------------------------------------------------------
(* The Logger: configuration calls and logging methods *)

LoggerOptions ==
    {NoOptions}
    \cup {[NoOptions EXCEPT !.given = {"level"}, !.level = l] : l \in LevelNames}
    \cup {[NoOptions EXCEPT !.given = {"enableConsole"}, !.enableConsole = b] : b \in BOOLEAN}
    \cup {[NoOptions EXCEPT !.given = {"enableFile", "filePath"}, !.enableFile = b,
                            !.filePath = f] : b \in BOOLEAN, f \in FilePaths}
    \cup {[NoOptions EXCEPT !.given = {"customHandler"}, !.customHandler = h] : h \in Handlers}

LoggerIdle ==
    UNCHANGED <<now, cache, timers, pending, maxSize, defaultTTL, cleanupTimer,
                calls, observe, destroyed, written, protection, logging, limiter>>

SetConfigLogger(options, dirOk) ==
    /\ logger' = LoggerSetConfig(logger, options, dirOk)
    /\ last' = Last("logger.setConfig", NoKey, UNDEFINED)
    /\ LoggerIdle

SetLevel(level) ==
    /\ logger' = LoggerSetLevel(logger, level)
    /\ last' = Last("setLevel", level, IF SetLevelThrows(level) THEN "Error" ELSE UNDEFINED)
    /\ LoggerIdle

SetConsoleEnabled(enabled) ==
    /\ logger' = LoggerSetConsoleEnabled(logger, enabled)
    /\ last' = Last("setConsoleEnabled", NoKey, UNDEFINED)
    /\ LoggerIdle

SetFileEnabled(enabled, filePath, dirOk) ==
    /\ logger' = LoggerSetFileEnabled(logger, enabled, filePath, dirOk)
    /\ last' = Last("setFileEnabled", NoKey, UNDEFINED)
    /\ LoggerIdle

SetCustomHandler(handler) ==
    /\ logger' = LoggerSetCustomHandler(logger, handler)
    /\ last' = Last("setCustomHandler", NoKey, UNDEFINED)
    /\ LoggerIdle

\* log(level, message, metadata); debug, info, warn and error are log with
\* their level
LogCall(level, writeOk) ==
    /\ last' = IF "log" \in observe
               THEN [Last("log", level, Log(logger, level, writeOk).threw)
                         EXCEPT !.list = Log(logger, level, writeOk).out]
               ELSE Quiet
    /\ UNCHANGED logger
    /\ LoggerIdle

NextLogger ==
    \/ \E options \in LoggerOptions, dirOk \in BOOLEAN : SetConfigLogger(options, dirOk)
    \/ \E level \in LevelNames : SetLevel(level)
    \/ \E enabled \in BOOLEAN : SetConsoleEnabled(enabled)
    \/ \E enabled \in BOOLEAN, filePath \in FilePaths, dirOk \in BOOLEAN :
           SetFileEnabled(enabled, filePath, dirOk)
    \/ \E handler \in Handlers : SetCustomHandler(handler)
    \/ \E level \in LevelNames, writeOk \in BOOLEAN : LogCall(level, writeOk)

InitLogger ==
    /\ Constructed(DefaultMaxSize)
    /\ \E options \in LoggerOptions, dirOk \in BOOLEAN : logger = NewLogger(options, dirOk)
    /\ protection = DefaultProtectionConfig
    /\ observe = {"log", "setLevel"}

SpecLogger == InitLogger /\ [][NextLogger]_vars

-----------------------------------------------------------------------------
(* C21 *)

\* C21 (logger robustness): after any sequence of configuration calls
\* (constructor options, setConfig, setLevel, setConsoleEnabled,
\* setFileEnabled, setCustomHandler), log/debug/info/warn/error never throw
\* to the caller, including when the custom handler throws, the file write
\* fails or the configured level is not a valid level.
Orig_C21_NeverThrows == last.op = "log" => last.val = UNDEFINED

-----------------------------------------------------------------------------
(* The CloudflareProtection middleware *)

DomainLists == {{}, DefaultDomains, {"evil.com"}}

ProtectionOptions ==
    {NoProtectionOptions}
    \cup {[NoProtectionOptions EXCEPT !.given = {"allowedDomains"}, !.allowedDomains = d] :
              d \in DomainLists}
    \cup {[NoProtectionOptions EXCEPT !.given = {"requireCloudflare"}, !.requireCloudflare = b] :
              b \in BOOLEAN}
    \cup {[NoProtectionOptions EXCEPT !.given = {"allowLocalhost"}, !.allowLocalhost = b] :
              b \in BOOLEAN}
    \cup {[NoProtectionOptions EXCEPT !.given = {"blockDirectIP"}, !.blockDirectIP = b] :
              b \in BOOLEAN}
    \cup {[NoProtectionOptions EXCEPT !.given = {"logBlocked"}, !.logBlocked = b] :
              b \in BOOLEAN}

ProtectionIdle ==
    UNCHANGED <<now, cache, timers, pending, maxSize, defaultTTL, cleanupTimer,
                calls, observe, destroyed, written, logger, logging, limiter>>

\* setLogger(logger) with the Logger
SetLoggerProtection ==
    /\ protection' = [protection EXCEPT !.logger = "Logger", !.enableLogging = TRUE]
    /\ last' = Last("setLogger", NoKey, UNDEFINED)
    /\ ProtectionIdle

SetLoggingEnabledProtection(enabled) ==
    /\ protection' = [protection EXCEPT !.enableLogging = enabled]
    /\ last' = Last("setLoggingEnabled", NoKey, UNDEFINED)
    /\ ProtectionIdle

SetAllowedDomains(domains) ==
    /\ protection' = IF domains = {} THEN protection
                     ELSE [protection EXCEPT !.allowedDomains = domains]
    /\ last' = Last("setAllowedDomains", NoKey, IF domains = {} THEN "Error" ELSE UNDEFINED)
    /\ ProtectionIdle

SetDevelopmentMode(enabled) ==
    /\ protection' = [protection EXCEPT !.developmentMode = enabled]
    /\ last' = Last("setDevelopmentMode", NoKey, UNDEFINED)
    /\ ProtectionIdle

\* updateConfig assigns the merged config and validates it afterwards
UpdateConfig(options) ==
    /\ protection' = Spread(protection, options)
    /\ last' = Last("updateConfig", NoKey,
                    IF ValidateConfigThrows(Spread(protection, options))
                    THEN "Error" ELSE UNDEFINED)
    /\ ProtectionIdle

\* the middleware handles the request req
Handle(req, writeOk) ==
    /\ last' = IF "middleware" \in observe
               THEN [Last("middleware", NoKey, UNDEFINED)
                         EXCEPT !.req = req,
                                !.res = Middleware(protection, logger, req, writeOk)]
               ELSE Quiet
    /\ UNCHANGED protection
    /\ ProtectionIdle

\* the Logger's level is reconfigured
LoggerLevelOptions ==
    {[NoOptions EXCEPT !.given = {"level"}, !.level = l] : l \in {"info", NoLevel}}

NextProtection ==
    \/ SetLoggerProtection
    \/ \E enabled \in BOOLEAN : SetLoggingEnabledProtection(enabled)
    \/ \E domains \in DomainLists : SetAllowedDomains(domains)
    \/ \E enabled \in BOOLEAN : SetDevelopmentMode(enabled)
    \/ \E options \in ProtectionOptions : UpdateConfig(options)
    \/ \E options \in LoggerLevelOptions : SetConfigLogger(options, TRUE)
    \/ \E req \in Requests : Handle(req, TRUE)

\* new CloudflareProtection(options) with options that validateConfig accepts
InitProtection ==
    /\ Constructed(DefaultMaxSize)
    /\ logger = NewLogger(NoOptions, TRUE)
    /\ \E options \in ProtectionOptions :
           /\ ~ValidateConfigThrows(Spread(DefaultProtectionConfig, options))
           /\ protection = Spread(DefaultProtectionConfig, options)
    /\ observe = {"middleware"}

SpecProtection == InitProtection /\ [][NextProtection]_vars

\* the middleware handled last.req
Handled == last.op = "middleware"

-----------------------------------------------------------------------------
(* C22 *)

\* C22 (Cloudflare-only access): with developmentMode off, requireCloudflare
\* on and the request not exempted as localhost, the middleware calls next()
\* only for requests carrying both the cf-ray and cf-connecting-ip headers;
\* every other request receives a 403 response and next() is not called, and
\* every request gets exactly one of next() or a response.
Orig_C22_CloudflareOnly ==
    Handled =>
        /\ (last.res.next /\ last.res.status = 0) \/ (~last.res.next /\ last.res.status # 0)
        /\ ~protection.developmentMode /\ protection.requireCloudflare
              /\ ~(protection.allowLocalhost /\ IsLocalhostRequest(last.req))
           => IF last.res.next
              THEN last.req.cfRay # UNDEFINED /\ last.req.cfConnectingIP # UNDEFINED
              ELSE last.res.status = 403

-----------------------------------------------------------------------------
(* C23 *)

\* C23 (domain allowlist): with developmentMode off and allowLocalhost off,
\* every request that the middleware passes to next() has a Host header
\* whose host part (port stripped) is a member of allowedDomains.
Orig_C23_DomainAllowlist ==
    Handled /\ ~protection.developmentMode /\ ~protection.allowLocalhost /\ last.res.next
        => /\ last.req.host # <<>>
           /\ Hostname(last.req.host) \in protection.allowedDomains

-----------------------------------------------------------------------------
(* Reads: get, has and keys among sets, timers and sweeps *)

NextRead ==
    \/ Tick
    \/ \E k \in TwoKeys, d \in Storable, ttl \in TTLs, sweep \in BOOLEAN : Set(k, d, ttl, sweep)
    \/ \E k \in TwoKeys : Get(k)
    \/ \E k \in TwoKeys : HasKey("p2", k)
    \/ HasReturn("p2")
    \/ KeysOp
    \/ \E h \in pending : TimerFire(h)
    \/ PeriodicSweep

InitRead == InitStore /\ observe = {"get", "has.called", "has", "keys"}

SpecRead == InitRead /\ [][NextRead]_vars

\* k has no entry, no timer handle and no pending timeout in st
Gone(st, k) ==
    /\ ~Has(st.cache, k)
    /\ st.timers[k] = NoTimer
    /\ \A h \in st.pending : h.key # k

StoreAfter == [cache |-> cache', timers |-> timers', pending |-> pending']

-----------------------------------------------------------------------------
(* C24 *)

\* C24 as stated (lazy expiry on every read path): each of get, has and
\* keys that meets an entry with expires set and now > expires treats it as
\* absent and removes the entry and its timer handle before returning.
Orig_C24_EveryReadRemoves ==
    [][\A k \in TwoKeys :
          (/\ StaleAt(cache, k, now)
           /\ \/ last'.op \in {"get", "has.called"} /\ last'.key = k
              \/ last'.op = "keys")
          => Gone(StoreAfter, k)]_vars

\* C24 (lazy expiry on read): a get(k) or has(k) that meets an entry of k
\* with expires set and now > expires removes the entry, its timer handle
\* and its timeout when it is called, and returns absent (get null; has
\* false, after its await, in a step that changes nothing); keys() leaves
\* such an entry out of its result but removes nothing: the store is as it
\* was.
Thm_C24_LazyExpiry ==
    [][/\ \A k \in TwoKeys :
             StaleAt(cache, k, now) =>
                 /\ last'.op = "get" /\ last'.key = k
                       => last'.val = NULL /\ Gone(StoreAfter, k)
                 /\ last'.op = "has.called" /\ last'.key = k
                       => calls'[last'.proc].cached = NULL /\ Gone(StoreAfter, k)
                 /\ last'.op = "keys"
                       => /\ \A i \in DOMAIN last'.list : last'.list[i] # k
                          /\ StoreAfter = Store
       /\ last'.op = "has" =>
             /\ last'.val = (calls[last'.proc].cached # NULL)
             /\ StoreAfter = Store]_vars

\* keys() has just left out an expired entry, which is still stored with its timer
Wit_C24_LazyExpiry ==
    /\ last.op = "keys"
    /\ \E k \in TwoKeys :
          /\ StaleAt(cache, k, now)
          /\ timers[k] # NoTimer
          /\ \A i \in DOMAIN last.list : last.list[i] # k

\* get(k) has just met an expired entry and removed it
Wit_C24_GetRemoved ==
    /\ last.op = "get"
    /\ last.stale
    /\ last.val = NULL
    /\ Gone(Store, last.key)

-----------------------------------------------------------------------------
(* C25 *)

\* C25 (get touches lastAccessed only): a get(k) that finds an unexpired
\* entry changes nothing but the lastAccessed field of k's entry: created,
\* expires, the value, the timers and every other entry are unchanged, and a
\* size pass run at any later time with any maxSize evicts the same keys as
\* it would have without the get.
Thm_C25_GetFrame ==
    [][last'.op = "get" /\ last'.live =>
          /\ timers' = timers
          /\ pending' = pending
          /\ Len(cache') = Len(cache)
          /\ \A i \in DOMAIN cache :
                cache'[i] = IF cache[i].key = last'.key
                            THEN [cache[i] EXCEPT !.lastAccessed = now]
                            ELSE cache[i]
          /\ \A t \in now..EndTime, m \in SmallSizes :
                Evicted(StoreAfter, t, m) = Evicted(Store, t, m)]_vars

\* the oldest of two entries has just been read, later than the other was
\* touched, and a size pass with maxSize 1 would still evict it
Wit_C25_GetFrame ==
    /\ last.op = "get"
    /\ last.live
    /\ Len(cache) = 2
    /\ cache[1].key = last.key
    /\ cache[1].created < cache[2].created
    /\ cache[1].lastAccessed > cache[2].lastAccessed
    /\ Evicted(Store, now, 1) = <<last.key>>

-----------------------------------------------------------------------------
(* Overwrites: sets of new and of existing keys under a small maxSize, with
   the sweeps; the history `written` tells which keys were overwritten *)

NextOverwrite ==
    \/ Tick
    \/ \E k \in TwoKeys, d \in Storable, ttl \in TTLs, sweep \in BOOLEAN : Set(k, d, ttl, sweep)
    \/ \E h \in pending : TimerFire(h)
    \/ PeriodicSweep

InitOverwrite ==
    /\ \E m \in SmallSizes : Constructed(m)
    /\ logger = NewLogger(NoOptions, TRUE)
    /\ protection = DefaultProtectionConfig
    /\ observe = {"set", "sweep", "written", "overwritten"}

SpecOverwrite == InitOverwrite /\ [][NextOverwrite]_vars

-----------------------------------------------------------------------------
(* C26 *)

\* C26 (overwrite refreshes age): a set(k, ...) on an existing key leaves k
\* with created equal to the time of the overwrite, and when a size pass
\* evicts an overwritten key, no entry whose last set happened before that
\* overwrite survives the pass.
Thm_C26_OverwriteRefreshesAge ==
    [][/\ \A k \in TwoKeys :
             (last'.op = "set" /\ last'.key = k /\ Has(cache, k) /\ Has(cache', k))
                 => Entry(cache', k).created = now
       /\ last'.swept =>
             \A r \in last'.evicted :
                 written'[r.key].st = "overwritten" =>
                     \A i \in DOMAIN cache' : cache'[i].created >= r.created]_vars

\* a size pass has just evicted a key and kept an overwritten key of a
\* later last set, which comes before the place of the evicted key in the
\* iteration order
Wit_C26_OverwriteRefreshesAge ==
    /\ last.swept
    /\ Len(cache) = 1
    /\ written[cache[1].key].st = "overwritten"
    /\ cache[1].key = "k1"
    /\ \E r \in last.evicted : r.key = "k2" /\ r.created < cache[1].created

-----------------------------------------------------------------------------
(* C27 *)

\* C27 (time-based pass): when a sweep completes, no stored entry is
\* time-expired as of the sweep's time (getStats().expired is 0), every
\* entry that was time-expired when the sweep ran is gone with its timer
\* handle and timeout, and the size pass evicts (unexpired) entries only if
\* more than maxSize entries remained after the time-based pass.
Thm_C27_TimePass ==
    [][last'.swept =>
          /\ Stats(StoreAfter, now, maxSize').expired = 0
          /\ \A i \in DOMAIN cache' : ~Expired(cache'[i], now)
          /\ \A k \in TwoKeys :
                (StaleAt(cache, k, now) /\ ~(last'.op = "set" /\ last'.key = k))
                    => Gone(StoreAfter, k)
          /\ last'.evicted # {} =>
                Len(cache') + Cardinality(last'.evicted) > maxSize']_vars

\* a periodic sweep has just removed an expired entry that still had its
\* timer, kept an unexpired one and evicted nothing
Wit_C27_TimePass ==
    /\ last.op = "sweep"
    /\ last.swept
    /\ last.evicted = {}
    /\ Len(cache) = 1
    /\ \E k \in TwoKeys :
          /\ written[k].st = "live"
          /\ now > written[k].exp
          /\ Gone(Store, k)

-----------------------------------------------------------------------------
(* Timers under fairness: time passes and a timeout that is due fires.  A
   set is taken only if its timeout falls due by EndTime, the last instant
   explored. *)

SetInTime(k, d, ttl, sweep) ==
    /\ now + TimerDelay(TtlDelay(ttl)) <= EndTime
    /\ Set(k, d, ttl, sweep)

NextTimers ==
    \/ Tick
    \/ \E k \in TwoKeys, d \in Storable, ttl \in TTLs \cup {BigTTL}, sweep \in BOOLEAN :
          SetInTime(k, d, ttl, sweep)
    \/ \E k \in TwoKeys : Get(k)
    \/ \E k \in TwoKeys : Del(k)
    \/ Clear
    \/ \E h \in pending : TimerFire(h)
    \/ PeriodicSweep

InitTimers == InitStore /\ observe = {"timer"}

\* the handles the timer facility can hold
Handles == [id : 1..(Cardinality(Keys) + 1), key : Keys, due : StartTime..EndTime]

\* the clock advances, and the timer facility runs the callback of every
\* timeout that is due
FairTimers == WF_vars(Tick) /\ \A h \in Handles : WF_vars(TimerFire(h))

SpecTimers == InitTimers /\ [][NextTimers]_vars /\ FairTimers

\* k has an entry that was stored with ttl > 0
HasTtl(k) == Has(cache, k) /\ Entry(cache, k).expires # NoExpiry

-----------------------------------------------------------------------------
(* C28 *)

\* C28 (eventual physical removal): whenever a key holds an entry stored
\* with ttl > 0, eventually the key holds no such entry and has no timer
\* handle and no pending timeout, whether or not any get, set or sweep is
\* executed afterwards, provided due timeouts fire and the cache is not
\* destroyed.
Thm_C28_EventualRemoval ==
    \A k \in TwoKeys :
        HasTtl(k) ~> (/\ ~HasTtl(k)
                      /\ timers[k] = NoTimer
                      /\ \A h \in pending : h.key # k)

\* the timer of a key has just removed its unexpired entry
Wit_C28_EventualRemoval ==
    /\ last.op = "timer"
    /\ last.live
    /\ now > StartTime
    /\ Gone(Store, last.key)

-----------------------------------------------------------------------------
(* The periodic sweep under fairness: the interval timer started by the
   constructor keeps firing *)

NextSweep ==
    \/ Tick
    \/ \E k \in TwoKeys, d \in Storable, ttl \in TTLs, sweep \in BOOLEAN : Set(k, d, ttl, sweep)
    \/ \E k \in TwoKeys : Get(k)
    \/ \E k \in TwoKeys : Del(k)
    \/ \E h \in pending : TimerFire(h)
    \/ PeriodicSweep
    \/ \E n \in Sizes : SetConfigMaxSize(n)

InitSweep == InitStore /\ observe = {"sweep"}

\* setInterval runs the sweep again and again
FairSweep == WF_vars(PeriodicSweep)

SpecSweep == InitSweep /\ [][NextSweep]_vars /\ FairSweep

-----------------------------------------------------------------------------
(* C29 *)

\* C29 (eventual size enforcement): with the periodic sweep running and no
\* destroy(), whenever the store holds more than maxSize entries it
\* eventually holds at most maxSize entries, without any further set call.
Orig_C29_EventualSizeBound == (Len(cache) > maxSize) ~> (Len(cache) <= maxSize)

-----------------------------------------------------------------------------
(* clear() among sets, timers, sweeps and changes of configuration *)

NextClear ==
    \/ Tick
    \/ \E k \in TwoKeys, d \in Storable, ttl \in TTLs, sweep \in BOOLEAN : Set(k, d, ttl, sweep)
    \/ Clear
    \/ \E h \in pending : TimerFire(h)
    \/ PeriodicSweep
    \/ \E n \in Sizes : SetMaxSize(n)
    \/ \E ttl \in DefaultTTLs : SetDefaultTTL(ttl)
    \/ \E i \in Intervals : SetConfigInterval(i)

InitClear == InitStore /\ observe = {"clear", "timer"}

SpecClear == InitClear /\ [][NextClear]_vars

-----------------------------------------------------------------------------
(* C30 *)

\* C30 (clear): a clear() step leaves no entry, no timer handle and no
\* pending timeout, and leaves maxSize, defaultTTL and the periodic sweep
\* timer as they were; a timeout that fires after a clear was scheduled
\* after it, since none scheduled before is left.
Thm_C30_Clear ==
    [][last'.op = "clear" =>
          /\ cache' = <<>>
          /\ \A k \in Keys : timers'[k] = NoTimer
          /\ pending' = {}
          /\ maxSize' = maxSize
          /\ defaultTTL' = defaultTTL
          /\ cleanupTimer' = cleanupTimer]_vars

\* clear() has just emptied a store that held a pending timeout, with the
\* periodic sweep running
Wit_C30_Clear ==
    /\ last.op = "clear"
    /\ last.prev > 0
    /\ cache = <<>>
    /\ pending = {}
    /\ cleanupTimer

-----------------------------------------------------------------------------
(* getStats among sets, reads, deletes, timers and sweeps *)

NextStats ==
    \/ Tick
    \/ \E k \in TwoKeys, d \in Storable, ttl \in TTLs, sweep \in BOOLEAN : Set(k, d, ttl, sweep)
    \/ \E k \in TwoKeys : Get(k)
    \/ \E k \in TwoKeys : Del(k)
    \/ \E h \in pending : TimerFire(h)
    \/ PeriodicSweep
    \/ GetStats

InitStats == InitStore /\ observe = {"getStats"}

SpecStats == InitStats /\ [][NextStats]_vars

-----------------------------------------------------------------------------
(* C31 *)

\* C31 (getStats): getStats() changes neither the entries nor the timers and
\* reports size = the number of stored entries, timers = the number of timer
\* handles (which is the number of pending timeouts) and expired = the
\* number of stored entries with now > expires; in every reachable state
\* expired <= size and timers <= size.
Thm_C31_GetStats ==
    /\ [](/\ Stats(Store, now, maxSize).expired <= Stats(Store, now, maxSize).size
          /\ Stats(Store, now, maxSize).timers <= Stats(Store, now, maxSize).size)
    /\ [][last'.op = "getStats" =>
             /\ StoreAfter = Store
             /\ last'.stats.size = Len(cache)
             /\ last'.stats.timers = Cardinality(pending)
             /\ last'.stats.timers = Cardinality({k \in Keys : timers[k] # NoTimer})
             /\ last'.stats.expired =
                    Cardinality({i \in DOMAIN cache :
                                    cache[i].expires # NoExpiry /\ now > cache[i].expires})
             /\ last'.stats.maxSize = maxSize]_vars

\* getStats() has just reported two entries, one of them expired and still
\* holding the only timer
Wit_C31_GetStats ==
    /\ last.op = "getStats"
    /\ last.stats.size = 2
    /\ last.stats.timers = 1
    /\ last.stats.expired = 1

-----------------------------------------------------------------------------
(* the four removal paths of an expired entry: timer callback, sweep, get, del *)

\* the entry and the timer of k are the same in st and in su
Untouched(st, su, k) ==
    /\ Has(st.cache, k) = Has(su.cache, k)
    /\ Has(st.cache, k) => Entry(st.cache, k) = Entry(su.cache, k)
    /\ st.timers[k] = su.timers[k]

\* the step just taken is one of the four removal paths acting on k
RemovalOf(k) ==
    \/ last'.op \in {"get", "del", "timer"} /\ last'.key = k
    \/ last'.op = "sweep"

-----------------------------------------------------------------------------
(* the cache with a logger: absent, without level methods, plain, or the
   library's Logger, whose level and custom handler change meanwhile; set,
   getOrSet through its awaits, the sweeps, clear, init and setMaxSize run
   under it *)

CacheIdle ==
    UNCHANGED <<now, cache, timers, pending, maxSize, defaultTTL, cleanupTimer,
                calls, observe, destroyed, written, logger, protection, limiter>>

\* new CacheService({enableLogging, logger}) in place of an instance that
\* holds nothing: the new instance has the constructor's defaults for
\* maxSize and defaultTTL; a constructor that throws yields no instance
Construct(enabled, sink) ==
    LET lc == [enableLogging |-> enabled, logger |-> sink]
        made == ConstructorLog(lc, logger) = UNDEFINED
    IN  /\ cache = <<>>
        /\ pending = {}
        /\ cleanupTimer
        /\ written = [k \in Keys |-> NotWritten]
        /\ \A p \in Procs : calls[p].pc = "idle"
        /\ logging' = IF made THEN lc ELSE logging
        /\ maxSize' = IF made THEN DefaultMaxSize ELSE maxSize
        /\ defaultTTL' = IF made THEN DefaultTTLSeconds ELSE defaultTTL
        /\ last' = [Last("new", NoKey, UNDEFINED) EXCEPT !.threw = ConstructorLog(lc, logger)]
        /\ UNCHANGED <<now, cache, timers, pending, cleanupTimer, calls, observe,
                       destroyed, written, logger, protection, limiter>>

\* setLogger(logger)
SetLoggerCache(sink) ==
    /\ logging' = [enableLogging |-> TRUE, logger |-> sink]
    /\ last' = Last("setLogger", NoKey, UNDEFINED)
    /\ CacheIdle

\* setLoggingEnabled(enabled)
SetLoggingEnabledCache(enabled) ==
    /\ logging' = [logging EXCEPT !.enableLogging = enabled]
    /\ last' = Last("setLoggingEnabled", NoKey, UNDEFINED)
    /\ CacheIdle

\* init()
InitCall ==
    /\ last' = Logged(Last("init", NoKey, UNDEFINED), "info", TRUE)
    /\ UNCHANGED logging
    /\ CacheIdle

NextLogging ==
    \/ Tick
    \/ \E d \in Storable, ttl \in TTLs, sweep \in BOOLEAN : Set(OtherKey, d, ttl, sweep)
    \/ \E h \in pending : TimerFire(h)
    \/ PeriodicSweep
    \/ Clear
    \/ InitCall
    \/ \E enabled \in BOOLEAN, sink \in Sinks : Construct(enabled, sink)
    \/ \E sink \in Sinks : SetLoggerCache(sink)
    \/ \E enabled \in BOOLEAN : SetLoggingEnabledCache(enabled)
    \/ \E handler \in {NULL, "throwsNull"} : SetCustomHandler(handler)
    \/ \E level \in {"debug", "info"} : SetLevel(level)
    \/ \E n \in {m \in Sizes : m < 0} : SetMaxSize(n)
    \/ \E ttl \in TTLs \ {0} : GetOrSetCall("p1", CallKey, ttl)
    \/ GetOrSetCached("p1")
    \/ \E d \in Storable, sweep \in BOOLEAN : ProducerResolve("p1", d, sweep)
    \/ GetOrSetReturn("p1")
    \/ GetOrSetCatch("p1")

InitLogging ==
    /\ InitStore
    /\ observe = {"new", "init", "set", "sweep", "clear", "getOrSet.set", "getOrSet.failed"}

SpecLogging == InitLogging /\ [][NextLogging]_vars

-----------------------------------------------------------------------------
(* C33 *)

\* C33 as stated: whatever the logger is (injected, absent, without level
\* methods) and whether or not logging is enabled, no cache operation and
\* no construction fails in its logging call.
Orig_C33_LoggingDoesNotInterfere == last.threw = UNDEFINED

-----------------------------------------------------------------------------
(* destroy under a logger: destroy() ends with this._log('info', ...) *)

NextDestroyLogged ==
    \/ Tick
    \/ \E k \in TwoKeys, d \in Storable, ttl \in TTLs : Set(k, d, ttl, FALSE)
    \/ \E h \in pending : TimerFire(h)
    \/ PeriodicSweep
    \/ Destroy
    \/ \E sink \in Sinks : SetLoggerCache(sink)
    \/ \E enabled \in BOOLEAN : SetLoggingEnabledCache(enabled)
    \/ \E handler \in {NULL, "throwsNull"} : SetCustomHandler(handler)

InitDestroyLogged == InitStore /\ observe = {"destroy", "destroyed"}

SpecDestroyLogged == InitDestroyLogged /\ [][NextDestroyLogged]_vars

-----------------------------------------------------------------------------
(* C17 *)

\* C17 as stated: destroy() does not throw, the first time or the second; it
\* stops the periodic sweep, leaves no timeout pending (so no timer scheduled
\* before it runs after it), no timer handle and no entry; and a destroy() of
\* a cache that is stopped and empty already changes nothing.
Orig_C17_Destroy ==
    [][last'.op = "destroy" =>
          /\ last'.threw = UNDEFINED
          /\ ~cleanupTimer'
          /\ pending' = {}
          /\ cache' = <<>>
          /\ \A k \in Keys : timers'[k] = NoTimer
          /\ (~cleanupTimer /\ cache = <<>> /\ pending = {}) =>
                /\ cache' = cache /\ timers' = timers /\ pending' = pending
                /\ cleanupTimer' = cleanupTimer /\ maxSize' = maxSize
                /\ defaultTTL' = defaultTTL]_vars

\* a second destroy() has just thrown in its log call, after it did its work
Wit_C17_SecondDestroyThrows ==
    /\ last.op = "destroy"
    /\ last.prev = 1
    /\ last.threw = "TypeError"
    /\ ~cleanupTimer /\ cache = <<>> /\ pending = {}

-----------------------------------------------------------------------------
(* the four removal paths of an expired entry under a logger: _cleanup logs
   at level debug when it removed something *)

NextRemoval ==
    \/ Tick
    \/ \E k \in TwoKeys, d \in Storable, ttl \in TTLs : Set(k, d, ttl, FALSE)
    \/ \E k \in TwoKeys : Get(k)
    \/ \E k \in TwoKeys : Del(k)
    \/ \E h \in pending : TimerFire(h)
    \/ PeriodicSweep
    \/ \E sink \in {NULL, "Logger"} : SetLoggerCache(sink)
    \/ \E handler \in {NULL, "throwsNull"} : SetCustomHandler(handler)
    \/ \E level \in {"debug", "info"} : SetLevel(level)

InitRemoval == InitStore /\ observe = {"get", "del", "timer", "sweep"}

SpecRemoval == InitRemoval /\ [][NextRemoval]_vars

-----------------------------------------------------------------------------
(* C32 *)

\* C32 as stated: when k's entry is time-expired, the timer callback, a
\* sweep, get(k) and del(k) each run without raising an error, leave k
\* absent from the store and from the timer table and leave every other key
\* untouched.
Orig_C32_RemovalsCoexist ==
    [][\A k \in Keys :
          (StaleAt(cache, k, now) /\ RemovalOf(k)) =>
              /\ last'.threw = UNDEFINED
              /\ Gone(StoreAfter, k)
              /\ \A k2 \in Keys \ {k} : Untouched(Store, StoreAfter, k2)]_vars

\* a sweep has just removed the one expired entry, touched no other key, and
\* thrown in its log call
Wit_C32_SweepThrows ==
    /\ last.op = "sweep"
    /\ last.threw = "TypeError"
    /\ last.evicted = {}
    /\ Len(cache) = 1
    /\ ~Expired(cache[1], now)

-----------------------------------------------------------------------------
(* createRateLimit: the middleware over the cache. A request is handled in
   steps separated by the awaits of cache.get and cache.set. *)

\* the requests a behaviour starts at most
MaxStarted == 3

\* the options given to createRateLimit
RateLimitOptions == [windowMs : {MsPerSec}, maxRequests : {1, 2}]

\* what a failing cache call rejects with; UNDEFINED: the call succeeds
Failures == {UNDEFINED, "Error", NULL}

\* Math.ceil(config.windowMs / 1000)
WindowSeconds(config) == (config.windowMs + MsPerSec - 1) \div MsPerSec

\* `await cache.get(key) || 0`
Current(c, k, t) == IF LiveAt(c, k, t) THEN Entry(c, k).data ELSE 0

RateLimitIdle ==
    UNCHANGED <<now, maxSize, defaultTTL, cleanupTimer, calls, observe, destroyed,
                written, logger, protection, logging>>

\* the middleware is entered by request p of the client with key k and
\* calls cache.get, which rejects with `fail` or returns
RateLimitGet(p, k, fail) ==
    /\ limiter.reqs[p].pc = "idle"
    /\ limiter.started < MaxStarted
    /\ Becomes(IF fail = UNDEFINED THEN GetStore(Store, k, now) ELSE Store)
    /\ limiter' = [limiter EXCEPT
           !.started = @ + 1,
           !.reqs[p] = IF fail = UNDEFINED
                       THEN [pc |-> "got", key |-> k, current |-> Current(cache, k, now),
                             failed |-> UNDEFINED]
                       ELSE [pc |-> "caught", key |-> k, current |-> 0, failed |-> fail]]
    /\ last' = [Last("rateLimit.get", k, UNDEFINED) EXCEPT !.proc = p]
    /\ RateLimitIdle

\* after the await of cache.get: the request is answered 429, or cache.set
\* is called, which rejects with `fail` or stores current + 1
RateLimitCheck(p, fail, sweep) ==
    LET r == limiter.reqs[p]
        blocked == r.current >= limiter.config.maxRequests
    IN  /\ r.pc = "got"
        /\ Becomes(IF blocked \/ fail # UNDEFINED THEN Store
                   ELSE SetSweep(Store, r.key, r.current + 1, WindowSeconds(limiter.config),
                                 now, maxSize, sweep))
        /\ limiter' = [limiter EXCEPT
               !.reqs[p] = IF blocked THEN IdleRequest
                           ELSE IF fail # UNDEFINED
                           THEN [r EXCEPT !.pc = "caught", !.failed = fail]
                           ELSE [r EXCEPT !.pc = "set"]]
        /\ last' = IF blocked
                   THEN [Last("rateLimit", r.key, UNDEFINED) EXCEPT
                            !.proc = p, !.prev = r.current,
                            !.res = [NoResponse EXCEPT !.status = 429]]
                   ELSE [Last("rateLimit.set", r.key, UNDEFINED) EXCEPT !.proc = p]
        /\ RateLimitIdle

\* after the await of cache.set: next()
RateLimitNext(p) ==
    LET r == limiter.reqs[p]
    IN  /\ r.pc = "set"
        /\ limiter' = [limiter EXCEPT !.reqs[p] = IdleRequest,
                                      !.passed[r.key] = Append(@, now)]
        /\ last' = [Last("rateLimit", r.key, UNDEFINED) EXCEPT
                       !.proc = p, !.prev = r.current,
                       !.res = [NoResponse EXCEPT !.next = TRUE]]
        /\ UNCHANGED <<cache, timers, pending>>
        /\ RateLimitIdle

\* the catch block: `error.message` is read, then next() is called
RateLimitCatch(p) ==
    LET r == limiter.reqs[p]
        threw == IF r.failed = NULL THEN "TypeError" ELSE UNDEFINED
    IN  /\ r.pc = "caught"
        /\ limiter' = [limiter EXCEPT
               !.reqs[p] = IdleRequest,
               !.passed[r.key] = IF threw = UNDEFINED THEN Append(@, now) ELSE @]
        /\ last' = [Last("rateLimit", r.key, UNDEFINED) EXCEPT
                       !.proc = p, !.prev = r.current, !.cause = r.failed,
                       !.res = [NoResponse EXCEPT !.next = (threw = UNDEFINED),
                                                  !.threw = threw]]
        /\ UNCHANGED <<cache, timers, pending>>
        /\ RateLimitIdle

\* createRateLimit(cache, options) over a fresh cache
InitRateLimit ==
    /\ now = StartTime
    /\ cache = <<>>
    /\ timers = [k \in Keys |-> NoTimer]
    /\ pending = {}
    /\ maxSize = DefaultMaxSize
    /\ defaultTTL = DefaultTTLSeconds
    /\ cleanupTimer = TRUE
    /\ calls = [p \in Procs |-> Idle]
    /\ destroyed = FALSE
    /\ written = [k \in Keys |-> NotWritten]
    /\ last = Quiet
    /\ logging = DefaultLogging
    /\ logger = NewLogger(NoOptions, TRUE)
    /\ protection = DefaultProtectionConfig
    /\ \E config \in RateLimitOptions : limiter = [NoLimiter EXCEPT !.config = config]
    /\ observe = {"rateLimit", "rateLimit.get", "rateLimit.set"}

\* requests whose cache calls can fail
NextRateLimitFailing ==
    \/ Tick
    \/ \E p \in Procs, k \in TwoKeys, fail \in Failures : RateLimitGet(p, k, fail)
    \/ \E p \in Procs, fail \in Failures, sweep \in BOOLEAN : RateLimitCheck(p, fail, sweep)
    \/ \E p \in Procs : RateLimitNext(p)
    \/ \E p \in Procs : RateLimitCatch(p)
    \/ \E h \in pending : TimerFire(h)

SpecRateLimitFailing == InitRateLimit /\ [][NextRateLimitFailing]_vars

\* requests over a CacheService that is swept, resized and cleared meanwhile
NextRateLimit ==
    \/ Tick
    \/ \E p \in Procs, k \in TwoKeys : RateLimitGet(p, k, UNDEFINED)
    \/ \E p \in Procs, sweep \in BOOLEAN : RateLimitCheck(p, UNDEFINED, sweep)
    \/ \E p \in Procs : RateLimitNext(p)
    \/ \E h \in pending : TimerFire(h)
    \/ PeriodicSweep
    \/ \E n \in SmallSizes : SetMaxSize(n)
    \/ Clear

SpecRateLimit == InitRateLimit /\ [][NextRateLimit]_vars

-----------------------------------------------------------------------------
(* C34 *)

\* C34 as stated: a request whose cache.get or cache.set failed is passed
\* to next() and gets no 429; a request that finds the stored count at
\* maxRequests or more gets a 429, is not passed to next(), and leaves the
\* entries and the timers as they are.
Orig_C34_FailOpen ==
    [][/\ (last'.op = "rateLimit" /\ last'.cause # UNDEFINED) =>
              (last'.res.next /\ last'.res.status # 429 /\ last'.res.threw = UNDEFINED)
       /\ (last'.op = "rateLimit" /\ last'.res.status = 429) =>
              (~last'.res.next /\ StoreAfter = Store
               /\ last'.prev >= limiter.config.maxRequests)]_vars

-----------------------------------------------------------------------------
(* C35 *)

\* the passes of key k within the window that starts at time t
PassesIn(k, t) ==
    {i \in DOMAIN limiter.passed[k] :
        /\ limiter.passed[k][i] >= t
        /\ limiter.passed[k][i] * TickMs < t * TickMs + limiter.config.windowMs}

\* C35 as stated: for every client key and every window of length windowMs,
\* at most maxRequests requests are passed to next().
Orig_C35_RateLimitBound ==
    \A k \in Keys : \A t \in StartTime..EndTime :
        Cardinality(PassesIn(k, t)) <= limiter.config.maxRequests

-----------------------------------------------------------------------------
(* a set followed at once by a get of the same key, with maxSize 1 or 2 *)

NextReadYourWrite ==
    \/ Tick
    \/ \E k \in TwoKeys, d \in Storable, ttl \in TTLs, sweep \in BOOLEAN : Set(k, d, ttl, sweep)
    \/ \E k \in TwoKeys : Get(k)

InitReadYourWrite ==
    /\ \E m \in SmallSizes : Constructed(m)
    /\ logger = NewLogger(NoOptions, TRUE)
    /\ protection = DefaultProtectionConfig
    /\ observe = {"set", "get", "sweep", "written", "kept"}

SpecReadYourWrite == InitReadYourWrite /\ [][NextReadYourWrite]_vars

-----------------------------------------------------------------------------
(* C36 *)

\* C36 as stated: a get(k) that directly follows set(k, v, ttl), with no
\* time elapsed and nothing in between, returns v, whether or not the set
\* ran the sweep.
Orig_C36_ReadYourWrite ==
    [][(last.op = "set" /\ last'.op = "get" /\ last'.key = last.key) =>
           last'.val = written[last.key].val]_vars

-----------------------------------------------------------------------------
(* C37 *)

\* the keys that hold a timer handle
TimerKeys == {k \in Keys : timers[k] # NoTimer}

\* the keys whose stored entry has an expiry
ExpiringKeys == {k \in Keys : Has(cache, k) /\ Entry(cache, k).expires # NoExpiry}

\* C37 (timer/expiry correspondence): in every reachable state the keys
\* with a timer handle are exactly the keys whose stored entry has a
\* non-null expires.
Thm_C37_TimerIffExpiry == TimerKeys = ExpiringKeys

\* one entry with an expiry and its timer next to one entry without expiry,
\* after time has passed
Wit_C37_TimerIffExpiry ==
    /\ Cardinality(TimerKeys) = 1
    /\ Len(cache) = 2
    /\ now > StartTime

-----------------------------------------------------------------------------
(* C38 *)

\* C38 as stated: after any sequence of setAllowedDomains and updateConfig
\* calls on a constructed instance, those that throw included, the
\* instance's allowedDomains is non-empty (a call that throws changes
\* nothing, and a call that returns has passed validation).
Orig_C38_ConfigStaysValid == ~ValidateConfigThrows(protection)

-----------------------------------------------------------------------------
(* the controller's key generators next to the cache's *)

\* BaseController.prototype.generateCacheKey: the keys are sorted with
\* localeCompare and copied into a new object, which is stringified
InstanceGenerateCacheKey(endpoint, p) ==
    LET sortedParams == SortedParams(p)
        paramString == IF Len(ObjectKeys(sortedParams)) > 0
                       THEN ":" \o Stringify(sortedParams) ELSE ""
    IN  "api:" \o endpoint \o paramString

\* static BaseController.generateCacheKey: params is stringified as it is
StaticGenerateCacheKey(endpoint, p) ==
    LET paramString == IF Len(ObjectKeys(p)) > 0 THEN ":" \o Stringify(p) ELSE ""
    IN  "api:" \o endpoint \o paramString

\* the three generators called with the same endpoint and params
GenerateCacheKeyCall(endpoint, p) ==
    /\ last' = [Last("generateCacheKey", endpoint, GenerateKey(endpoint, p)) EXCEPT
                   !.list = <<StaticGenerateCacheKey(endpoint, p),
                              InstanceGenerateCacheKey(endpoint, p)>>]
    /\ CacheIdle
    /\ UNCHANGED logging

NextKeys == \E endpoint \in Endpoints, p \in AllParams : GenerateCacheKeyCall(endpoint, p)

InitKeys == InitStore /\ observe = {"generateCacheKey"}

SpecKeys == InitKeys /\ [][NextKeys]_vars

-----------------------------------------------------------------------------
(* C39 *)

\* C39 as stated: for every endpoint and params the static
\* BaseController.generateCacheKey, the instance generateCacheKey and
\* CacheService.generateKey return the same string.
Orig_C39_GeneratorsAgree ==
    last.op = "generateCacheKey" =>
        /\ last.list[1] = last.list[2]
        /\ last.list[2] = last.val

====
